---------------------------- MODULE Spec2Model ----------------------------
(***************************************************************************)
(* Model of the drawing application's engine:                              *)
(*   - the undo/redo history hook (useHistory),                            *)
(*   - the element geometry helpers (hit testing, canonicalization).       *)
(*                                                                         *)
(* Array indices are 0-based in the source and kept 0-based here; TLA+     *)
(* sequences are 1-based, so the snapshot at source index i is h[i + 1].   *)
(***************************************************************************)
EXTENDS Integers, Sequences, FiniteSets, TLC

VARIABLES
    \* ---- useHistory: React state of the hook
    index,        \* useState(0): the cursor
    history,      \* useState([initialState]): the snapshots
    \* ---- bookkeeping of the history scenario (not program state)
    trace,        \* the operations issued so far, oldest first
    prevIndex,    \* index before the last operation
    prevHistory,  \* history before the last operation
    \* ---- geometry scenario: inputs and the results of the helpers
    elements,     \* the element collection handed to the helpers
    drawn,        \* the collection as it was drawn, before any settle
    px,           \* the queried point, x
    py,           \* the queried point, y
    call,         \* which helper ran last
    tag,          \* the type tag or handle tag handed to it
    result,       \* what it returned
    \* ---- detectRegions: its arguments, locals and return value
    imageData,        \* ctx.getImageData(...): width, height, alpha channel
    minRegionSize,    \* argument
    groupingDistance, \* argument
    visited,          \* the Set of pixel keys
    scan,             \* raster position the first pass looks at next
    queue,            \* floodFill's queue
    region,           \* floodFill's region
    completed,        \* every region floodFill returned so far, in order
    initialRegions,   \* the regions kept, then merged
    regions,          \* the array detectRegions returns
    pc,               \* where detectRegions is
    \* ---- App: the React state the pointer handlers read and set, one
    \* field per useState: action, tool, selectedElement,
    \* startPanMousePosition, panOffset, isDrawing
    app,
    prevApp,      \* app before the last event
    \* ---- bookkeeping of the pointer scenario (not program state)
    steps,        \* number of events handled so far
    gesture,      \* the document as the running gesture found it
    \* ---- App: the idle timer, its refs and the state its callback reads
    \* and sets, with the clock of the timer scenario
    timer

vars == <<index, history, trace, prevIndex, prevHistory,
          elements, drawn, px, py, call, tag, result,
          imageData, minRegionSize, groupingDistance, visited, scan, queue,
          region, completed, initialRegions, regions, pc,
          app, prevApp, steps, gesture, timer>>

histVars == <<index, history, trace, prevIndex, prevHistory>>
geomVars == <<elements, drawn, px, py, call, tag, result>>
regionVars == <<imageData, minRegionSize, groupingDistance, visited, scan,
                queue, region, completed, initialRegions, regions, pc>>
appVars == <<app, prevApp, steps, gesture, timer>>

\* the refs and region state as mounted: idleTimerRef = useRef(null),
\* lastDrawTimeRef = useRef(null), lastElementIndexRef = useRef(0),
\* drawingRegions and currentRegionElements empty; no timer scheduled
NoTimer ==
    [idleTimerRef |-> 0, lastDrawTimeRef |-> 0, lastElementIndexRef |-> 0,
     drawingRegions |-> 0, hasRegionElements |-> FALSE,
     scheduled |-> {}, nextId |-> 1, now |-> 1, mounted |-> TRUE,
     lastDrawEvent |-> 0, fired |-> 0]

Max(a, b) == IF a >= b THEN a ELSE b
Min(a, b) == IF a <= b THEN a ELSE b
Abs(a) == IF a < 0 THEN 0 - a ELSE a

(***************************************************************************)
(* Bounds of the model.                                                    *)
(***************************************************************************)
\* snapshots of the history scenario are the values 0..NumSnap
NumSnap == 2
\* number of history operations issued in one run
MaxOps == 4

(***************************************************************************)
(* useHistory                                                              *)
(***************************************************************************)
\* a JavaScript array slot that was never assigned
Undefined == "undefined"

Snapshots == 0..NumSnap

\* the initialState handed to useHistory
InitialState == 0

\* the `action` argument of setState: a plain new state, or an updater
\* function of the current snapshot (prevState => prevState)
ValueActions == [isFunction : {FALSE}, f : {"none"}, value : Snapshots]
UpdaterActions == [isFunction : {TRUE}, f : {"identity"}, value : {0}]
Actions == ValueActions \cup UpdaterActions

ApplyUpdater(f, prevState) == prevState

\* typeof action === "function" ? action(history[index]) : action
ResolveAction(action, h, i) ==
    IF action.isFunction THEN ApplyUpdater(action.f, h[i + 1]) ELSE action.value

\* historyCopy[index] = newState on a copy of the array
ArraySet(a, i, v) ==
    [k \in 1..Max(Len(a), i + 1) |->
        IF k = i + 1 THEN v ELSE IF k <= Len(a) THEN a[k] ELSE Undefined]

\* variant: slice(0, index), the snapshot at the cursor is cut off as well
SliceToExclusive(a, n) == SubSeq(a, 1, Min(n - 1, Len(a)))

\* [...history].slice(0, index + 1)
SliceTo(a, n) == SubSeq(a, 1, Min(n, Len(a)))

\* variant: the overwrite lands on the slot after the cursor
OverwriteHistoryAtNext(h, i, newState) == ArraySet(h, i + 1, newState)

\* overwrite branch of setState: the array handed to setHistory
OverwriteHistory(h, i, newState) == ArraySet(h, i, newState)

\* variant: the redo branch is not cut before appending
AppendHistoryKeepRedo(h, i, newState) == Append(h, newState)

\* non-overwrite branch of setState: the array handed to setHistory
AppendHistory(h, i, newState) == Append(SliceTo(h, i + 1), newState)

\* setState(action, overwrite): h and i are the history and index of the
\* render whose closure runs; the result is the array given to setHistory
SetStateHistory(h, i, action, overwrite) ==
    IF overwrite
    THEN OverwriteHistory(h, i, ResolveAction(action, h, i))
    ELSE AppendHistory(h, i, ResolveAction(action, h, i))

\* setState's effect on the cursor: setIndex(prevState => prevState + 1)
\* in the non-overwrite branch only
SetStateIndex(cur, overwrite) == IF overwrite THEN cur ELSE cur + 1

\* variant: undo without its guard
UndoIndexUnguarded(i, cur) == cur - 1

\* undo: index > 0 && setIndex(prevState => prevState - 1)
UndoIndex(i, cur) == IF i > 0 THEN cur - 1 ELSE cur

\* variant: redo's guard lets the last index through
RedoIndexOffByOne(h, i, cur) == IF i <= Len(h) - 1 THEN cur + 1 ELSE cur

\* redo: index < history.length - 1 && setIndex(prevState => prevState + 1)
RedoIndex(h, i, cur) == IF i < Len(h) - 1 THEN cur + 1 ELSE cur

\* the first element of the hook's return value: history[index]
Current == history[index + 1]

OpRecord(op, action, overwrite) ==
    [op |-> op, action |-> action, overwrite |-> overwrite]

NoAction == [isFunction |-> FALSE, f |-> "none", value |-> 0]

HistInit ==
    /\ index = 0
    /\ history = <<InitialState>>
    /\ trace = <<>>
    /\ prevIndex = 0
    /\ prevHistory = <<InitialState>>

Remember(op) ==
    /\ trace' = Append(trace, op)
    /\ prevIndex' = index
    /\ prevHistory' = history

\* setState(action, overwrite), followed by the re-render that hands the new
\* state to the next handler
Commit(action, overwrite) ==
    /\ Len(trace) < MaxOps
    /\ history' = SetStateHistory(history, index, action, overwrite)
    /\ index' = SetStateIndex(index, overwrite)
    /\ Remember(OpRecord("commit", action, overwrite))

Undo ==
    /\ Len(trace) < MaxOps
    /\ index' = UndoIndex(index, index)
    /\ history' = history
    /\ Remember(OpRecord("undo", NoAction, FALSE))

Redo ==
    /\ Len(trace) < MaxOps
    /\ index' = RedoIndex(history, index, index)
    /\ history' = history
    /\ Remember(OpRecord("redo", NoAction, FALSE))

(***************************************************************************)
(* Element model and geometry helpers                                      *)
(***************************************************************************)
\* JavaScript null
Null == "null"

\* the Error thrown by the default branch of a switch on the type tag
TypeError == "Error: Type not recognised"

\* half-width of the square box around a handle (nearPoint)
HandleTolerance == 5

\* maxDistance of onLine: its default, and the value the pencil test passes
LineSlack == 1
PencilSlack == 5

\* resolution of the fixed-point distances: Math.sqrt results are carried
\* in units of 1/DistScale, rounded down
DistScale == 100

RECURSIVE SqrtSearch(_, _, _)
SqrtSearch(n, lo, hi) ==
    IF lo >= hi THEN lo
    ELSE LET mid == (lo + hi + 1) \div 2
         IN IF mid * mid <= n THEN SqrtSearch(n, mid, hi)
                             ELSE SqrtSearch(n, lo, mid - 1)

\* Math.sqrt(n), in units of 1/DistScale, rounded down (46340 is the largest
\* root a 32-bit square allows)
Sqrt(n) == SqrtSearch(n * DistScale * DistScale, 0, 46340)

\* distance(a, b), in units of 1/DistScale
distance(a, b) ==
    Sqrt((a.x - b.x) * (a.x - b.x) + (a.y - b.y) * (a.y - b.y))

\* generator.line / generator.rectangle: the drawable is a function of the
\* arguments it was generated from
RoughElement(x1, y1, x2, y2, type) ==
    IF type = "line" THEN <<"line", x1, y1, x2, y2>>
                     ELSE <<"rectangle", x1, y1, x2 - x1, y2 - y1>>

\* what a call comes to: it throws, returns undefined, or returns a value
Threw(e) == [outcome |-> "threw", value |-> e]
ReturnedUndefined == [outcome |-> "undefined", value |-> Undefined]
Returned(v) == [outcome |-> "returned", value |-> v]

\* the switch of createElement: the element it returns or the error it throws
createElementCall(id, x1, y1, x2, y2, type, pencilSize) ==
    CASE type \in {"line", "rectangle"} ->
            Returned([id |-> id, x1 |-> x1, y1 |-> y1, x2 |-> x2, y2 |-> y2,
                      type |-> type,
                      roughElement |-> RoughElement(x1, y1, x2, y2, type)])
      [] type = "pencil" ->
            Returned([id |-> id, type |-> type,
                      points |-> <<[x |-> x1, y |-> y1, isErased |-> FALSE]>>,
                      size |-> pencilSize])
      [] type = "text" ->
            Returned([id |-> id, type |-> type, x1 |-> x1, y1 |-> y1,
                      x2 |-> x2, y2 |-> y2, text |-> ""])
      [] type = "capture" ->
            Returned([id |-> id, type |-> type, x1 |-> x1, y1 |-> y1,
                      x2 |-> x2, y2 |-> y2])
      [] OTHER -> Threw(TypeError)

\* the element createElement returns (the error, where it throws)
createElement(id, x1, y1, x2, y2, type, pencilSize) ==
    createElementCall(id, x1, y1, x2, y2, type, pencilSize).value

\* variant: the later operand wins
OrElseLast(a, b) == IF b # Null THEN b ELSE a

\* a || b on values that are a non-empty string or null
OrElse(a, b) == IF a # Null THEN a ELSE b

\* variant: the box includes its border
nearPointInclusive(x, y, x1, y1, name) ==
    IF Abs(x - x1) <= HandleTolerance /\ Abs(y - y1) <= HandleTolerance
    THEN name ELSE Null

nearPoint(x, y, x1, y1, name) ==
    IF Abs(x - x1) < HandleTolerance /\ Abs(y - y1) < HandleTolerance
    THEN name ELSE Null

onLine(x1, y1, x2, y2, x, y, maxDistance) ==
    LET a == [x |-> x1, y |-> y1]
        b == [x |-> x2, y |-> y2]
        c == [x |-> x, y |-> y]
        offset == distance(a, b) - (distance(a, c) + distance(b, c))
    IN IF Abs(offset) < maxDistance * DistScale THEN "inside" ELSE Null

\* x >= x1 && x <= x2 && y >= y1 && y <= y2 ? "inside" : null
Contained(x, y, x1, y1, x2, y2) ==
    IF x >= x1 /\ x <= x2 /\ y >= y1 /\ y <= y2 THEN "inside" ELSE Null

positionWithinElement(x, y, element) ==
    CASE element.type = "line" ->
            LET on == onLine(element.x1, element.y1, element.x2, element.y2,
                             x, y, LineSlack)
                start == nearPoint(x, y, element.x1, element.y1, "start")
                end == nearPoint(x, y, element.x2, element.y2, "end")
            IN OrElse(OrElse(start, end), on)
      [] element.type = "rectangle" ->
            LET topLeft == nearPoint(x, y, element.x1, element.y1, "tl")
                topRight == nearPoint(x, y, element.x2, element.y1, "tr")
                bottomLeft == nearPoint(x, y, element.x1, element.y2, "bl")
                bottomRight == nearPoint(x, y, element.x2, element.y2, "br")
                inside == Contained(x, y, element.x1, element.y1,
                                    element.x2, element.y2)
            IN OrElse(OrElse(OrElse(OrElse(topLeft, topRight), bottomLeft),
                             bottomRight), inside)
      [] element.type = "pencil" ->
            LET betweenAnyPoint ==
                    \E i \in 1..(Len(element.points) - 1) :
                        onLine(element.points[i].x, element.points[i].y,
                               element.points[i + 1].x, element.points[i + 1].y,
                               x, y, PencilSlack) # Null
            IN IF betweenAnyPoint THEN "inside" ELSE Null
      [] element.type = "text" ->
            Contained(x, y, element.x1, element.y1, element.x2, element.y2)
      [] OTHER -> TypeError

\* { ...element, position }
WithPosition(element, position) == [position |-> position] @@ element

\* elements.map(...).find(element => element.position !== null): map tests
\* every element before find looks at the first
getElementAtPosition(x, y, elems) ==
    LET position == [k \in 1..Len(elems) |->
                        positionWithinElement(x, y, elems[k])]
        hits == {k \in 1..Len(elems) : position[k] # Null}
    IN IF \E k \in 1..Len(elems) : position[k] = TypeError
       THEN Threw(TypeError)
       ELSE IF hits = {} THEN ReturnedUndefined
       ELSE LET k == CHOOSE h \in hits : \A j \in hits : h <= j
            IN Returned(WithPosition(elems[k], position[k]))

Coordinates(x1, y1, x2, y2) == [x1 |-> x1, y1 |-> y1, x2 |-> x2, y2 |-> y2]

\* variant: the rectangle's maxY takes y2 twice (cf. Math.max(.., y2, y2))
adjustElementCoordinatesMaxSlip(element) ==
    IF element.type = "rectangle"
    THEN Coordinates(Min(element.x1, element.x2), Min(element.y1, element.y2),
                     Max(element.x1, element.x2), Max(element.y2, element.y2))
    ELSE IF element.x1 < element.x2
            \/ (element.x1 = element.x2 /\ element.y1 < element.y2)
         THEN Coordinates(element.x1, element.y1, element.x2, element.y2)
         ELSE Coordinates(element.x2, element.y2, element.x1, element.y1)

\* variant: lines are ordered per axis, like rectangles
adjustElementCoordinatesPerAxis(element) ==
    Coordinates(Min(element.x1, element.x2), Min(element.y1, element.y2),
                Max(element.x1, element.x2), Max(element.y1, element.y2))

adjustElementCoordinates(element) ==
    IF element.type = "rectangle"
    THEN LET minX == Min(element.x1, element.x2)
             maxX == Max(element.x1, element.x2)
             minY == Min(element.y1, element.y2)
             maxY == Max(element.y1, element.y2)
         IN Coordinates(minX, minY, maxX, maxY)
    ELSE IF element.x1 < element.x2
            \/ (element.x1 = element.x2 /\ element.y1 < element.y2)
         THEN Coordinates(element.x1, element.y1, element.x2, element.y2)
         ELSE Coordinates(element.x2, element.y2, element.x1, element.y1)

\* variant: lines are left as they were drawn
adjustmentRequiredRectangleOnly(type) == type = "rectangle"

adjustmentRequired(type) == type \in {"line", "rectangle"}

(***************************************************************************)
(* Scenario of the history hook: commits, undo and redo in any order.      *)
(***************************************************************************)
\* the App as mounted, no pointer event handled
AppIdle ==
    /\ app = [action |-> "none", tool |-> "rectangle",
              selectedElement |-> [type |-> "null"],
              startPanMousePosition |-> [x |-> 0, y |-> 0],
              panOffset |-> [x |-> 0, y |-> 0], isDrawing |-> FALSE]
    /\ prevApp = app
    /\ steps = 0
    /\ timer = NoTimer
    /\ gesture = [open |-> FALSE]

RegionIdle ==
    /\ imageData = [width |-> 0, height |-> 0, data |-> <<>>]
    /\ minRegionSize = 1
    /\ groupingDistance = 0
    /\ visited = {}
    /\ scan = 0
    /\ queue = <<>>
    /\ region = [points |-> <<>>, minX |-> 0, maxX |-> 0, minY |-> 0, maxY |-> 0]
    /\ completed = <<>>
    /\ initialRegions = <<>>
    /\ regions = <<>>
    /\ pc = "idle"

GeomIdle ==
    /\ elements = <<>>
    /\ drawn = <<>>
    /\ px = 0
    /\ py = 0
    /\ call = "none"
    /\ tag = "none"
    /\ result = Returned(Null)

InitHistory == HistInit /\ GeomIdle /\ RegionIdle /\ AppIdle

NextHistory ==
    \/ \E a \in Actions, ow \in BOOLEAN : Commit(a, ow) /\ UNCHANGED <<geomVars, regionVars, appVars>>
    \/ Undo /\ UNCHANGED <<geomVars, regionVars, appVars>>
    \/ Redo /\ UNCHANGED <<geomVars, regionVars, appVars>>

SpecHistory == InitHistory /\ [][NextHistory]_vars

(***************************************************************************)
(* Properties of the history hook, of specification SpecHistory            *)
(***************************************************************************)
LastOp == trace[Len(trace)]

IsCommit(op, overwrite) == op.op = "commit" /\ op.overwrite = overwrite

\* the new state the last commit resolved its action to
LastNewState ==
    IF LastOp.action.isFunction THEN prevHistory[prevIndex + 1]
                                ELSE LastOp.action.value

\* C1: after any sequence of commits (overwrite or not), undo and redo the
\* cursor stays within 0..length-1 and current() is a defined snapshot.
C1_CursorInRange ==
    /\ 0 <= index
    /\ index <= Len(history) - 1
    /\ Current \in Snapshots

\* all four kinds of operation were issued, ending on the last snapshot
C1_Witness ==
    /\ Len(trace) >= 4
    /\ \E k \in 1..Len(trace) : IsCommit(trace[k], FALSE)
    /\ \E k \in 1..Len(trace) : IsCommit(trace[k], TRUE)
    /\ \E k \in 1..Len(trace) : trace[k].op = "undo"
    /\ \E k \in 1..Len(trace) : trace[k].op = "redo"
    /\ index = Len(history) - 1

\* C2: a commit with overwrite=false at cursor c keeps snapshots 0..c, drops
\* the ones after c, appends newState and moves the cursor to c+1, the last
\* index; current() is newState and a redo right after it changes nothing.
\* After commit(s1), commit(s2), undo(), commit(s3) the history is
\* initial, s1, s3 and s2 is gone.
C2_CommitAppends ==
    /\ (trace # <<>> /\ IsCommit(LastOp, FALSE)) =>
          /\ Len(history) = prevIndex + 2
          /\ SubSeq(history, 1, prevIndex + 1)
                = SubSeq(prevHistory, 1, prevIndex + 1)
          /\ history[Len(history)] = LastNewState
          /\ index = prevIndex + 1
          /\ index = Len(history) - 1
          /\ Current = LastNewState
    /\ (Len(trace) >= 2 /\ LastOp.op = "redo"
            /\ IsCommit(trace[Len(trace) - 1], FALSE)) =>
          /\ index = prevIndex
          /\ history = prevHistory
    /\ (/\ Len(trace) = 4
        /\ IsCommit(trace[1], FALSE) /\ ~trace[1].action.isFunction
        /\ IsCommit(trace[2], FALSE) /\ ~trace[2].action.isFunction
        /\ trace[3].op = "undo"
        /\ IsCommit(trace[4], FALSE) /\ ~trace[4].action.isFunction) =>
          /\ Current = trace[4].action.value
          /\ history = <<InitialState, trace[1].action.value,
                         trace[4].action.value>>
          /\ RedoIndex(history, index, index) = index

\* commit(1), commit(2), undo(), commit(1): 2 was dropped
C2_Witness ==
    /\ Len(trace) = 4
    /\ IsCommit(trace[1], FALSE) /\ ~trace[1].action.isFunction
    /\ IsCommit(trace[2], FALSE) /\ ~trace[2].action.isFunction
    /\ trace[2].action.value = 2
    /\ trace[3].op = "undo"
    /\ IsCommit(trace[4], FALSE) /\ ~trace[4].action.isFunction
    /\ history = <<InitialState, 1, 1>>
    /\ index = 2

\* C3: a commit with overwrite=true replaces the snapshot at the cursor and
\* nothing else: length, cursor and the other snapshots stay; after one
\* commit(base) on a fresh history any number of overwrite commits leaves
\* exactly 2 snapshots.
C3_OverwriteInPlace ==
    /\ (trace # <<>> /\ IsCommit(LastOp, TRUE)) =>
          /\ Len(history) = Len(prevHistory)
          /\ index = prevIndex
          /\ history[index + 1] = LastNewState
          /\ \A k \in 1..Len(history) :
                k # index + 1 => history[k] = prevHistory[k]
    /\ (/\ trace # <<>>
        /\ IsCommit(trace[1], FALSE)
        /\ \A k \in 2..Len(trace) : IsCommit(trace[k], TRUE)) =>
          Len(history) = 2

\* commit(base) and three overwrite commits of different values
C3_Witness ==
    /\ Len(trace) = 4
    /\ IsCommit(trace[1], FALSE)
    /\ \A k \in 2..4 : IsCommit(trace[k], TRUE) /\ ~trace[k].action.isFunction
    /\ trace[2].action.value # trace[3].action.value
    /\ trace[3].action.value # trace[4].action.value
    /\ history = <<InitialState, trace[4].action.value>>

\* C4, as stated: every commit with overwrite=false makes the history one
\* snapshot longer than it was before the commit.
C4_AlwaysGrowsByOne ==
    (trace # <<>> /\ IsCommit(LastOp, FALSE)) =>
        Len(history) = Len(prevHistory) + 1

\* C4, amended: a commit with overwrite=false at cursor c leaves c+2
\* snapshots; that is one more than before exactly when the cursor was on
\* the last snapshot, and never more than one more.
C4_GrowsFromCursor ==
    (trace # <<>> /\ IsCommit(LastOp, FALSE)) =>
        /\ Len(history) = prevIndex + 2
        /\ Len(history) <= Len(prevHistory) + 1
        /\ (Len(history) = Len(prevHistory) + 1
                <=> prevIndex = Len(prevHistory) - 1)

\* a commit issued after an undo: the history did not grow
C4_Witness ==
    /\ trace # <<>>
    /\ IsCommit(LastOp, FALSE)
    /\ prevIndex < Len(prevHistory) - 1
    /\ Len(history) = Len(prevHistory)

\* C5: undo at cursor 0 and redo at the last index change nothing; otherwise
\* undo moves the cursor down by one and redo up by one; neither changes the
\* snapshots.
C5_UndoRedoSteps ==
    /\ (trace # <<>> /\ LastOp.op = "undo") =>
          /\ history = prevHistory
          /\ index = IF prevIndex = 0 THEN 0 ELSE prevIndex - 1
    /\ (trace # <<>> /\ LastOp.op = "redo") =>
          /\ history = prevHistory
          /\ index = IF prevIndex = Len(prevHistory) - 1
                     THEN prevIndex ELSE prevIndex + 1

\* commit, undo (a step), undo (at 0, no step), redo (a step)
C5_Witness ==
    /\ Len(trace) = 4
    /\ IsCommit(trace[1], FALSE)
    /\ trace[2].op = "undo"
    /\ trace[3].op = "undo"
    /\ trace[4].op = "redo"
    /\ prevIndex = 0
    /\ index = 1

(***************************************************************************)
(* Scenario of the geometry helpers: a collection is drawn, and the        *)
(* helpers are applied to it at the points of a grid.                      *)
(***************************************************************************)
\* number of elements in a collection of several elements
MaxElems == 2

\* corner coordinates of the lines and rectangles tested alone
ShapeCoords == {0, 4, 10}

\* coordinates of the queried points
PointCoords == {-100, -5, -4, 0, 2, 4, 5, 7, 9, 10, 14, 15, 110}

\* pencil size of the application at start: useState(3)
DefaultPencilSize == 3

\* a pencil stroke as updateElement grows it: points appended without isErased
Stroke(id, pts) ==
    [id |-> id, type |-> "pencil",
     points |-> [k \in 1..Len(pts) |->
                    IF k = 1
                    THEN [x |-> pts[k][1], y |-> pts[k][2], isErased |-> FALSE]
                    ELSE [x |-> pts[k][1], y |-> pts[k][2]]],
     size |-> DefaultPencilSize]

\* a text element after updateElement set its text and measured extent
TextElement(id, x1, y1, x2, y2, text) ==
    [createElement(id, x1, y1, x2, y2, "text", DefaultPencilSize)
        EXCEPT !.text = text]

\* every line and rectangle with corners on ShapeCoords, in any corner order
Shapes(id) ==
    {createElement(id, x1, y1, x2, y2, type, DefaultPencilSize) :
        x1 \in ShapeCoords, y1 \in ShapeCoords,
        x2 \in ShapeCoords, y2 \in ShapeCoords,
        type \in {"line", "rectangle"}}

\* elements of every type, as members of a collection of several elements
Pool(id) ==
    {createElement(id, 0, 0, 10, 10, "rectangle", DefaultPencilSize),
     createElement(id, 4, 4, 10, 0, "rectangle", DefaultPencilSize),
     createElement(id, 0, 0, 10, 10, "line", DefaultPencilSize),
     createElement(id, 10, 4, 0, 4, "line", DefaultPencilSize),
     createElement(id, 0, 0, 10, 10, "capture", DefaultPencilSize),
     Stroke(id, <<<<0, 4>>, <<10, 4>>, <<10, 10>>>>),
     TextElement(id, 4, 0, 14, 4, "a")}

RECURSIVE Collections(_)
Collections(n) ==
    IF n = 0 THEN {<<>>}
    ELSE {Append(c, e) : c \in Collections(n - 1), e \in Pool(n - 1)}

GeomCollections ==
    {<<e>> : e \in Shapes(0) \cup Pool(0)}
    \cup UNION {Collections(n) : n \in 2..MaxElems}

InitGeometry ==
    /\ AppIdle
    /\ elements \in GeomCollections
    /\ drawn = elements
    /\ px = 0
    /\ py = 0
    /\ call = "none"
    /\ tag = "none"
    /\ result = Returned(Null)
    /\ HistInit
    /\ RegionIdle

\* handleMouseUp's settle of the first element: adjustElementCoordinates
\* on it when adjustmentRequired says so
Adjust ==
    /\ call = "none"
    /\ adjustmentRequired(elements[1].type)
    /\ result' = Returned(adjustElementCoordinates(elements[1]))
    /\ call' = "adjust"
    /\ UNCHANGED <<elements, drawn, px, py, tag>>

\* the settled coordinates are stored in the element (updateElement builds
\* it with createElement) and the element is settled again
ReAdjust ==
    /\ call = "adjust"
    /\ LET c == result.value
           settled == createElement(elements[1].id, c.x1, c.y1, c.x2, c.y2,
                                    elements[1].type, DefaultPencilSize)
       IN /\ elements' = [elements EXCEPT ![1] = settled]
          /\ result' = Returned(adjustElementCoordinates(settled))
    /\ call' = "readjust"
    /\ UNCHANGED <<drawn, px, py, tag>>

\* positionWithinElement(x, y, elements[0])
Position(x, y) ==
    /\ call = "none"
    /\ px' = x
    /\ py' = y
    /\ LET p == positionWithinElement(x, y, elements[1])
       IN result' = IF p = TypeError THEN Threw(p) ELSE Returned(p)
    /\ call' = "positionWithinElement"
    /\ UNCHANGED <<elements, drawn, tag>>

\* getElementAtPosition(x, y, elements)
Locate(x, y) ==
    /\ call = "none"
    /\ px' = x
    /\ py' = y
    /\ result' = getElementAtPosition(x, y, elements)
    /\ call' = "getElementAtPosition"
    /\ UNCHANGED <<elements, drawn, tag>>

NextGeometry ==
    \/ Adjust /\ UNCHANGED <<histVars, regionVars, appVars>>
    \/ ReAdjust /\ UNCHANGED <<histVars, regionVars, appVars>>
    \/ \E x \in PointCoords, y \in PointCoords :
          Position(x, y) /\ UNCHANGED <<histVars, regionVars, appVars>>
    \/ \E x \in PointCoords, y \in PointCoords :
          Locate(x, y) /\ UNCHANGED <<histVars, regionVars, appVars>>

SpecGeometry == InitGeometry /\ [][NextGeometry]_vars

(***************************************************************************)
(* Properties of the geometry helpers, of specification SpecGeometry       *)
(***************************************************************************)
CoordsOf(e) == Coordinates(e.x1, e.y1, e.x2, e.y2)

\* C6: for a rectangle with corners in any order adjustElementCoordinates
\* returns x1<=x2 and y1<=y2 with the same x and y extents, and settling the
\* settled rectangle again returns the same coordinates.
C6_RectangleCanonical ==
    /\ (call = "adjust" /\ drawn[1].type = "rectangle") =>
          LET c == result.value
              e == drawn[1]
          IN /\ c.x1 <= c.x2
             /\ c.y1 <= c.y2
             /\ {c.x1, c.x2} = {e.x1, e.x2}
             /\ {c.y1, c.y2} = {e.y1, e.y2}
    /\ (call = "readjust" /\ drawn[1].type = "rectangle") =>
          LET c == result.value
              e == drawn[1]
          IN /\ c = CoordsOf(elements[1])
             /\ c.x1 <= c.x2
             /\ c.y1 <= c.y2
             /\ {c.x1, c.x2} = {e.x1, e.x2}
             /\ {c.y1, c.y2} = {e.y1, e.y2}

\* a rectangle drawn right to left and bottom to top, settled twice
C6_Witness ==
    /\ call = "readjust"
    /\ drawn[1].type = "rectangle"
    /\ drawn[1].x1 > drawn[1].x2
    /\ drawn[1].y1 > drawn[1].y2
    /\ result.value = Coordinates(drawn[1].x2, drawn[1].y2,
                                  drawn[1].x1, drawn[1].y1)

\* C7: for a line with endpoints P and Q adjustElementCoordinates returns the
\* same for (P,Q) and (Q,P); the first endpoint has the smaller x, ties broken
\* by smaller y; both endpoints are kept whole; settling the settled line
\* again changes nothing.
C7_LineCanonical ==
    /\ (call = "adjust" /\ drawn[1].type = "line") =>
          LET c == result.value
              e == drawn[1]
              reversed == createElement(e.id, e.x2, e.y2, e.x1, e.y1, "line",
                                        DefaultPencilSize)
          IN /\ c = adjustElementCoordinates(reversed)
             /\ c.x1 < c.x2 \/ (c.x1 = c.x2 /\ c.y1 <= c.y2)
             /\ c \in {CoordsOf(e), CoordsOf(reversed)}
    /\ (call = "readjust" /\ drawn[1].type = "line") =>
          LET c == result.value
              e == drawn[1]
          IN /\ c = CoordsOf(elements[1])
             /\ c \in {CoordsOf(e), Coordinates(e.x2, e.y2, e.x1, e.y1)}

\* a vertical line drawn upwards (equal x, the tie decided by y), settled twice
C7_Witness ==
    /\ call = "readjust"
    /\ drawn[1].type = "line"
    /\ drawn[1].x1 = drawn[1].x2
    /\ drawn[1].y1 > drawn[1].y2
    /\ result.value = Coordinates(drawn[1].x2, drawn[1].y2,
                                  drawn[1].x1, drawn[1].y1)

\* the last call hit-tested a canonical rectangle
CanonicalRectangleTested ==
    /\ call = "positionWithinElement"
    /\ elements[1].type = "rectangle"
    /\ elements[1].x1 <= elements[1].x2
    /\ elements[1].y1 <= elements[1].y2

AtTopLeft == px = elements[1].x1 /\ py = elements[1].y1

AtCentre ==
    /\ 2 * px = elements[1].x1 + elements[1].x2
    /\ 2 * py = elements[1].y1 + elements[1].y2

\* 100 or more units outside the rectangle on some axis
FarOutside ==
    \/ px <= elements[1].x1 - 100
    \/ px >= elements[1].x2 + 100
    \/ py <= elements[1].y1 - 100
    \/ py >= elements[1].y2 + 100

\* C8, as stated: for a canonical rectangle of any size the hit test returns
\* "tl" at (x1,y1), "inside" at the centre and none 100 or more units outside.
C8_CentreInsideAnySize ==
    CanonicalRectangleTested =>
        /\ AtTopLeft => result.value = "tl"
        /\ AtCentre => result.value = "inside"
        /\ FarOutside => result.value = Null

\* C8, amended: "tl" at (x1,y1); none 100 or more units outside; at the centre
\* "inside" when the rectangle is at least 10 units wide or at least 10 units
\* tall, and "tl" when it is smaller than that on both axes (the centre then
\* lies in the top-left handle's box).
C8_CentreInsideWhenLarge ==
    CanonicalRectangleTested =>
        /\ result.outcome = "returned"
        /\ AtTopLeft => result.value = "tl"
        /\ AtCentre =>
              result.value =
                 IF \/ elements[1].x2 - elements[1].x1 >= 10
                    \/ elements[1].y2 - elements[1].y1 >= 10
                 THEN "inside" ELSE "tl"
        /\ FarOutside => result.value = Null

\* the centre of a rectangle exactly 10 wide and less than 10 tall
C8_Witness ==
    /\ CanonicalRectangleTested
    /\ AtCentre
    /\ elements[1].x2 - elements[1].x1 = 10
    /\ elements[1].y2 - elements[1].y1 \in 1..9
    /\ result.value = "inside"

\* the point is strictly within the 5-unit box around (cx, cy)
InHandleBox(cx, cy) == Abs(px - cx) < 5 /\ Abs(py - cy) < 5

\* C9: a point within the 5-unit square box of a rectangle corner or a line
\* endpoint gets that handle's tag, also when it is contained in the rectangle
\* or on the segment, in the order tl, tr, bl, br and start, end; "inside" is
\* returned only when no handle matches.
C9_HandlesFirst ==
    /\ (call = "positionWithinElement" /\ elements[1].type = "rectangle") =>
          LET e == elements[1]
              contained == /\ px >= e.x1 /\ px <= e.x2
                           /\ py >= e.y1 /\ py <= e.y2
          IN result.value =
                IF InHandleBox(e.x1, e.y1) THEN "tl"
                ELSE IF InHandleBox(e.x2, e.y1) THEN "tr"
                ELSE IF InHandleBox(e.x1, e.y2) THEN "bl"
                ELSE IF InHandleBox(e.x2, e.y2) THEN "br"
                ELSE IF contained THEN "inside" ELSE Null
    /\ (call = "positionWithinElement" /\ elements[1].type = "line") =>
          LET e == elements[1]
          IN result.value =
                IF InHandleBox(e.x1, e.y1) THEN "start"
                ELSE IF InHandleBox(e.x2, e.y2) THEN "end"
                ELSE onLine(e.x1, e.y1, e.x2, e.y2, px, py, LineSlack)

\* a point contained in the rectangle and within the boxes of tr and br, not
\* of tl: the answer is "tr"
C9_Witness ==
    /\ call = "positionWithinElement"
    /\ elements[1].type = "rectangle"
    /\ px >= elements[1].x1 /\ px <= elements[1].x2
    /\ py >= elements[1].y1 /\ py <= elements[1].y2
    /\ ~InHandleBox(elements[1].x1, elements[1].y1)
    /\ InHandleBox(elements[1].x2, elements[1].y1)
    /\ InHandleBox(elements[1].x2, elements[1].y2)
    /\ result.value = "tr"

\* the 1-based places of the elements whose position test gives a tag
TaggedPlaces ==
    {k \in 1..Len(elements) :
        positionWithinElement(px, py, elements[k]) \notin {Null, TypeError}}

\* C10, as stated: getElementAtPosition returns the first element in
\* collection order whose position test is non-null, returns none when no
\* element's position test is non-null, and leaves the collection as it was.
C10_FirstHitReturned ==
    call = "getElementAtPosition" =>
        /\ elements = drawn
        /\ IF TaggedPlaces = {}
           THEN result.outcome = "undefined"
           ELSE /\ result.outcome = "returned"
                /\ \E k \in TaggedPlaces :
                      /\ \A j \in TaggedPlaces : k <= j
                      /\ result.value =
                            WithPosition(elements[k],
                               positionWithinElement(px, py, elements[k]))

\* C10 on the collections positionWithinElement has a case for: with no
\* capture element in the collection the first hit is returned.
C10_FirstHitWithoutCapture ==
    (/\ call = "getElementAtPosition"
     /\ \A k \in 1..Len(elements) : elements[k].type # "capture") =>
        C10_FirstHitReturned

\* the rectangle with the coordinates of element e
RectangleLike(e) ==
    createElement(e.id, e.x1, e.y1, e.x2, e.y2, "rectangle", DefaultPencilSize)

\* C11: hit-testing a capture element gives what hit-testing a rectangle with
\* the same coordinates gives (a corner tag, "inside" or none), and a
\* collection holding a capture element is hit-tested without failure.
C11_CaptureLikeRectangle ==
    /\ (call = "positionWithinElement" /\ elements[1].type = "capture") =>
          /\ result.outcome = "returned"
          /\ result.value
                = positionWithinElement(px, py, RectangleLike(elements[1]))
    /\ (/\ call = "getElementAtPosition"
        /\ \E k \in 1..Len(elements) : elements[k].type = "capture") =>
          result.outcome # "threw"

(***************************************************************************)
(* updateElement and drawElement, and the scenario of the type dispatch:   *)
(* each operation that switches on a type tag, called once with a known    *)
(* or an unknown tag.                                                      *)
(***************************************************************************)
KnownTypes == {"line", "rectangle", "pencil", "text", "capture"}
UnknownType == "ellipse"
TypeTags == KnownTypes \cup {UnknownType}

TextHeight == 24

\* context.measureText(text).width of the canvas
measureText(text) == IF text = "" THEN 0 ELSE 10

\* setElements(newState, overwrite) with a plain new state
ValueAction(newState) == [isFunction |-> FALSE, f |-> "none", value |-> newState]

\* updateElement up to its setElements call: the elementsCopy handed to
\* setElements, or the error of the default branch
updateElement(elems, id, x1, y1, x2, y2, type, options, pencilSize) ==
    CASE type \in {"line", "rectangle"} ->
            Returned(ArraySet(elems, id,
                [size |-> pencilSize]
                    @@ createElement(id, x1, y1, x2, y2, type,
                                     DefaultPencilSize)))
      [] type = "pencil" ->
            Returned(ArraySet(elems, id,
                [elems[id + 1] EXCEPT
                    !.points = Append(@, [x |-> x2, y |-> y2])]))
      [] type = "text" ->
            Returned(ArraySet(elems, id,
                [createElement(id, x1, y1, x1 + measureText(options.text),
                               y1 + TextHeight, type, DefaultPencilSize)
                    EXCEPT !.text = options.text]))
      [] OTHER -> Threw(TypeError)

isErased(point) == "isErased" \in DOMAIN point /\ point.isErased

\* the forEach of drawElement's pencil case: the segments closed so far
\* and the segment being collected, after the first n points
RECURSIVE SegmentScan(_, _)
SegmentScan(points, n) ==
    IF n = 0 THEN [nonErasedSegments |-> <<>>, currentSegment |-> <<>>]
    ELSE LET before == SegmentScan(points, n - 1)
             point == points[n]
         IN IF ~isErased(point)
            THEN [before EXCEPT
                    !.currentSegment = Append(@, <<point.x, point.y>>)]
            ELSE IF Len(before.currentSegment) > 0
            THEN [nonErasedSegments |->
                      Append(before.nonErasedSegments, before.currentSegment),
                  currentSegment |-> <<>>]
            ELSE before

nonErasedSegments(points) ==
    LET all == SegmentScan(points, Len(points))
    IN IF Len(all.currentSegment) > 0
       THEN Append(all.nonErasedSegments, all.currentSegment)
       ELSE all.nonErasedSegments

\* drawElement: the canvas calls it makes, or the error of the default branch
drawElement(element) ==
    CASE element.type \in {"line", "rectangle"} ->
            Returned(<<[op |-> "draw", shape |-> element.roughElement]>>)
      [] element.type = "pencil" ->
            Returned(SelectSeq(
                [k \in 1..Len(nonErasedSegments(element.points)) |->
                    [op |-> "fill",
                     shape |-> nonErasedSegments(element.points)[k]]],
                LAMBDA c : Len(c.shape) > 1))
      [] element.type = "text" ->
            Returned(<<[op |-> "fillText",
                        shape |-> <<element.text, element.x1, element.y1>>]>>)
      [] element.type = "capture" ->
            Returned(<<[op |-> "strokeRect",
                        shape |-> <<element.x1, element.y1,
                                    element.x2 - element.x1,
                                    element.y2 - element.y1>>]>>)
      [] OTHER -> Threw(TypeError)

\* an element carrying a tag no operation knows
UnknownElement == [id |-> 0, type |-> UnknownType,
                   x1 |-> 0, y1 |-> 0, x2 |-> 10, y2 |-> 10]

DispatchElements == Pool(0) \cup {UnknownElement}

DispatchCollections ==
    {<<e>> : e \in Pool(0)} \cup Collections(MaxElems)

DispatchPoints == {0, 5, 14}

\* the history holds the collection: elements is history[index]
InitDispatch ==
    /\ AppIdle
    /\ elements \in DispatchCollections
    /\ drawn = elements
    /\ px = 0
    /\ py = 0
    /\ call = "none"
    /\ tag = "none"
    /\ result = Returned(Null)
    /\ index = 0
    /\ history = <<elements>>
    /\ trace = <<>>
    /\ prevIndex = 0
    /\ prevHistory = <<elements>>
    /\ RegionIdle

\* createElement(elements.length, x, y, x, y, type, pencilSize)
DispatchCreate(x, y, type) ==
    /\ call = "none"
    /\ call' = "createElement"
    /\ tag' = type
    /\ px' = x
    /\ py' = y
    /\ result' = createElementCall(Len(elements), x, y, x, y, type,
                                   DefaultPencilSize)
    /\ UNCHANGED <<elements, drawn, histVars>>

\* positionWithinElement(x, y, element)
DispatchPosition(x, y, element) ==
    /\ call = "none"
    /\ call' = "positionWithinElement"
    /\ tag' = element.type
    /\ px' = x
    /\ py' = y
    /\ LET p == positionWithinElement(x, y, element)
       IN result' = IF p = TypeError THEN Threw(p) ELSE Returned(p)
    /\ UNCHANGED <<elements, drawn, histVars>>

\* updateElement(0, x, y, x2, y2, type, options): type is the tag of the
\* element updated, or a tag no operation knows; setElements(elementsCopy,
\* true) runs only when the switch did not throw
DispatchUpdate(x, y, type) ==
    /\ call = "none"
    /\ type \in {elements[1].type, UnknownType}
    /\ call' = "updateElement"
    /\ tag' = type
    /\ px' = x
    /\ py' = y
    /\ LET r == updateElement(elements, 0, x, y, x + 4, y + 4, type,
                              [text |-> "a"], DefaultPencilSize)
       IN /\ result' = r
          /\ IF r.outcome = "threw"
             THEN UNCHANGED <<elements, histVars>>
             ELSE /\ history' = SetStateHistory(history, index,
                                                ValueAction(r.value), TRUE)
                  /\ index' = SetStateIndex(index, TRUE)
                  /\ elements' = history'[index' + 1]
                  /\ prevHistory' = history
                  /\ prevIndex' = index
                  /\ UNCHANGED trace
    /\ UNCHANGED drawn

\* adjustElementCoordinates(element); an element without coordinates (a
\* pencil stroke) has them undefined and gets them back undefined
DispatchAdjust(element) ==
    /\ call = "none"
    /\ call' = "adjustElementCoordinates"
    /\ tag' = element.type
    /\ result' = IF "x1" \in DOMAIN element
                 THEN Returned(adjustElementCoordinates(element))
                 ELSE Returned(Coordinates(Undefined, Undefined,
                                           Undefined, Undefined))
    /\ UNCHANGED <<elements, drawn, px, py, histVars>>

\* drawElement(roughCanvas, context, element)
DispatchDraw(element) ==
    /\ call = "none"
    /\ call' = "drawElement"
    /\ tag' = element.type
    /\ result' = drawElement(element)
    /\ UNCHANGED <<elements, drawn, px, py, histVars>>

NextDispatch ==
    \/ \E x \in DispatchPoints, y \in DispatchPoints, type \in TypeTags :
          DispatchCreate(x, y, type) /\ UNCHANGED <<regionVars, appVars>>
    \/ \E x \in DispatchPoints, y \in DispatchPoints,
          element \in DispatchElements : DispatchPosition(x, y, element) /\ UNCHANGED <<regionVars, appVars>>
    \/ \E x \in DispatchPoints, y \in DispatchPoints, type \in TypeTags :
          DispatchUpdate(x, y, type) /\ UNCHANGED <<regionVars, appVars>>
    \/ \E element \in DispatchElements : DispatchAdjust(element) /\ UNCHANGED <<regionVars, appVars>>
    \/ \E element \in DispatchElements : DispatchDraw(element) /\ UNCHANGED <<regionVars, appVars>>

SpecDispatch == InitDispatch /\ [][NextDispatch]_vars

DispatchCalls ==
    {"createElement", "positionWithinElement", "updateElement",
     "adjustElementCoordinates", "drawElement"}

\* C12: every operation that dispatches on a type tag throws the
\* unrecognised-type error for a tag outside the five known ones and accepts
\* each of the five; the failing operation leaves the element collection
\* and the history as they were.
C12_UniformTypeDispatch ==
    call \in DispatchCalls =>
        /\ (result.outcome = "threw") <=> (tag \notin KnownTypes)
        /\ result.outcome = "threw" =>
              /\ result.value = TypeError
              /\ elements = drawn
              /\ history = <<drawn>>
              /\ index = 0

(***************************************************************************)
(* resizedCoordinates and the resizing branch of handleMouseMove, and the  *)
(* scenario of one resize of a line or rectangle by some handle tag.       *)
(***************************************************************************)
HandleTags == {"tl", "tr", "bl", "br", "start", "end"}
UnknownHandle == "centre"
DestructureError == "TypeError: Cannot destructure property 'x1' of null"

ReturnedNull == [outcome |-> "null", value |-> Null]

\* variant: the "tr" case writes the pointer's x and y the wrong way round
resizedCoordinatesTrSwapped(clientX, clientY, position, coordinates) ==
    CASE position \in {"tl", "start"} ->
            Returned(Coordinates(clientX, clientY,
                                 coordinates.x2, coordinates.y2))
      [] position = "tr" ->
            Returned(Coordinates(coordinates.x1, clientX,
                                 clientY, coordinates.y2))
      [] position = "bl" ->
            Returned(Coordinates(clientX, coordinates.y1,
                                 coordinates.x2, clientY))
      [] position \in {"br", "end"} ->
            Returned(Coordinates(coordinates.x1, coordinates.y1,
                                 clientX, clientY))
      [] OTHER -> ReturnedNull

\* resizedCoordinates: the coordinates it returns, or its null
resizedCoordinates(clientX, clientY, position, coordinates) ==
    CASE position \in {"tl", "start"} ->
            Returned(Coordinates(clientX, clientY,
                                 coordinates.x2, coordinates.y2))
      [] position = "tr" ->
            Returned(Coordinates(coordinates.x1, clientY,
                                 clientX, coordinates.y2))
      [] position = "bl" ->
            Returned(Coordinates(clientX, coordinates.y1,
                                 coordinates.x2, clientY))
      [] position \in {"br", "end"} ->
            Returned(Coordinates(coordinates.x1, coordinates.y1,
                                 clientX, clientY))
      [] OTHER -> ReturnedNull

ResizePoints == {2, 7, 12}
ResizeTags == HandleTags \cup {UnknownHandle}

\* one line or rectangle, selected at mouse-down with some handle tag
InitResize ==
    /\ AppIdle
    /\ elements \in {<<e>> : e \in Shapes(0)}
    /\ drawn = elements
    /\ px = 0
    /\ py = 0
    /\ call = "none"
    /\ tag = "none"
    /\ result = Returned(Null)
    /\ index = 0
    /\ history = <<elements>>
    /\ trace = <<>>
    /\ prevIndex = 0
    /\ prevHistory = <<elements>>
    /\ RegionIdle

\* resizedCoordinates(x, y, position, coordinates of the selected element)
Resized(x, y, position) ==
    /\ call = "none"
    /\ call' = "resizedCoordinates"
    /\ tag' = position
    /\ px' = x
    /\ py' = y
    /\ result' = resizedCoordinates(x, y, position, elements[1])
    /\ UNCHANGED <<elements, drawn, histVars>>

\* handleMouseMove with action "resizing" and the selection tool: the hit
\* test for the cursor, then resizedCoordinates, the destructuring of its
\* result and updateElement
ResizeMove(x, y, position) ==
    /\ call = "none"
    /\ call' = "handleMouseMove"
    /\ tag' = position
    /\ px' = x
    /\ py' = y
    /\ LET hit == getElementAtPosition(x, y, elements)
           selectedElement == WithPosition(elements[1], position)
           resized == resizedCoordinates(x, y, position, selectedElement)
           c == resized.value
           updated == updateElement(elements, selectedElement.id,
                                    c.x1, c.y1, c.x2, c.y2,
                                    selectedElement.type, [text |-> ""],
                                    DefaultPencilSize)
       IN IF hit.outcome = "threw"
          THEN /\ result' = hit
               /\ UNCHANGED <<elements, histVars>>
          ELSE IF resized.outcome = "null"
          THEN /\ result' = Threw(DestructureError)
               /\ UNCHANGED <<elements, histVars>>
          ELSE IF updated.outcome = "threw"
          THEN /\ result' = updated
               /\ UNCHANGED <<elements, histVars>>
          ELSE /\ result' = ReturnedUndefined
               /\ history' = SetStateHistory(history, index,
                                             ValueAction(updated.value), TRUE)
               /\ index' = SetStateIndex(index, TRUE)
               /\ elements' = history'[index' + 1]
               /\ prevHistory' = history
               /\ prevIndex' = index
               /\ UNCHANGED trace
    /\ UNCHANGED drawn

NextResize ==
    \/ \E x \in ResizePoints, y \in ResizePoints, position \in ResizeTags :
          Resized(x, y, position) /\ UNCHANGED <<regionVars, appVars>>
    \/ \E x \in ResizePoints, y \in ResizePoints, position \in ResizeTags :
          ResizeMove(x, y, position) /\ UNCHANGED <<regionVars, appVars>>

SpecResize == InitResize /\ [][NextResize]_vars

\* the coordinates a handle tag names
Named(position) ==
    CASE position \in {"tl", "start"} -> {"x1", "y1"}
      [] position = "tr" -> {"x2", "y1"}
      [] position = "bl" -> {"x1", "y2"}
      [] position \in {"br", "end"} -> {"x2", "y2"}

\* C13: resizedCoordinates(x, y, tag, coords) sets exactly the coordinates
\* the handle names to the pointer's x or y ("tl"/"start": x1,y1; "tr":
\* x2,y1; "bl": x1,y2; "br"/"end": x2,y2) and returns the others as they
\* are in coords.
C13_ResizeFrame ==
    (call = "resizedCoordinates" /\ tag \in HandleTags) =>
        /\ result.outcome = "returned"
        /\ DOMAIN result.value = {"x1", "y1", "x2", "y2"}
        /\ \A f \in {"x1", "x2"} :
              result.value[f] = IF f \in Named(tag) THEN px
                                ELSE drawn[1][f]
        /\ \A f \in {"y1", "y2"} :
              result.value[f] = IF f \in Named(tag) THEN py
                                ELSE drawn[1][f]

C13_Witness ==
    /\ call = "resizedCoordinates"
    /\ tag = "tr"
    /\ px = 7
    /\ py = 2
    /\ drawn[1].x1 = 10
    /\ drawn[1].y2 = 4
    /\ result.value = Coordinates(10, 2, 7, 4)

\* C14: with a handle tag outside {tl, tr, bl, br, start, end}
\* resizedCoordinates returns null, and the resizing pointer-move that
\* consumes the result raises no error and leaves the element collection
\* and the history unchanged.
C14_UnknownHandleNoOp ==
    tag \notin HandleTags =>
        /\ call = "resizedCoordinates" => result.outcome = "null"
        /\ call = "handleMouseMove" =>
              /\ result.outcome # "threw"
              /\ elements = drawn
              /\ history = <<drawn>>
              /\ index = 0

(***************************************************************************)
(* Region detection: getPixel, floodFill, calculateRegionDistance,         *)
(* mergeRegions and detectRegions, one step per loop iteration.            *)
(***************************************************************************)
Key(x, y) == <<x, y>>

\* getPixel: the alpha channel of pixel (x, y); data holds one alpha value
\* per pixel in row order
getPixel(image, x, y) == [a |-> image.data[(y * image.width + x) + 1]]

isPixelNonTransparent(pixel) == pixel.a > 0

isWithinBounds(x, y, width, height) ==
    x >= 0 /\ x < width /\ y >= 0 /\ y < height

\* variant: the four edge neighbours only
neighborsFourWay(x, y) ==
    <<<<x + 1, y>>, <<x - 1, y>>, <<x, y + 1>>, <<x, y - 1>>>>

\* the neighbors array of floodFill, in its order
neighbors(x, y) ==
    <<<<x + 1, y>>, <<x - 1, y>>, <<x, y + 1>>, <<x, y - 1>>,
      <<x + 1, y + 1>>, <<x - 1, y - 1>>, <<x + 1, y - 1>>, <<x - 1, y + 1>>>>

\* floodFill's region before its loop
StartRegion(startX, startY) ==
    [points |-> <<>>, minX |-> startX, maxX |-> startX,
     minY |-> startY, maxY |-> startY]

\* region.points.push({x, y}) and the four Math.min / Math.max updates
AddPoint(r, x, y) ==
    [points |-> Append(r.points, [x |-> x, y |-> y]),
     minX |-> Min(r.minX, x), maxX |-> Max(r.maxX, x),
     minY |-> Min(r.minY, y), maxY |-> Max(r.maxY, y)]

\* calculateRegionDistance, in units of 1/DistScale
calculateRegionDistance(region1, region2) ==
    LET xOverlap == ~(region1.maxX < region2.minX
                      \/ region1.minX > region2.maxX)
        yOverlap == ~(region1.maxY < region2.minY
                      \/ region1.minY > region2.maxY)
        dx == IF ~xOverlap
              THEN Min(Abs(region1.maxX - region2.minX),
                       Abs(region1.minX - region2.maxX))
              ELSE 0
        dy == IF ~yOverlap
              THEN Min(Abs(region1.maxY - region2.minY),
                       Abs(region1.minY - region2.maxY))
              ELSE 0
    IN IF xOverlap /\ yOverlap THEN 0 ELSE Sqrt(dx * dx + dy * dy)

\* variant: the merged region keeps the bounds of the first
mergeRegionsFirstBounds(region1, region2) ==
    [points |-> region1.points \o region2.points,
     minX |-> region1.minX, maxX |-> region1.maxX,
     minY |-> region1.minY, maxY |-> region1.maxY]

mergeRegions(region1, region2) ==
    [points |-> region1.points \o region2.points,
     minX |-> Min(region1.minX, region2.minX),
     maxX |-> Max(region1.maxX, region2.maxX),
     minY |-> Min(region1.minY, region2.minY),
     maxY |-> Max(region1.maxY, region2.maxY)]

\* variant: a region is kept only above the threshold
retainedStrict(r, minSize) == Len(r.points) > minSize

\* region.points.length >= minRegionSize
retained(r, minSize) == Len(r.points) >= minSize

\* variant: regions exactly groupingDistance apart are not merged
withinGroupingStrict(dist, grouping) == dist < grouping * DistScale

\* distance <= groupingDistance
withinGrouping(dist, grouping) == dist <= grouping * DistScale

NoPair == <<0, 0>>

\* variant: only neighbours in the array are compared (j = i + 1)
firstPairAdjacentOnly(rs, grouping) ==
    LET close == {p \in (1..Len(rs)) \X (1..Len(rs)) :
                    /\ p[2] = p[1] + 1
                    /\ withinGrouping(
                          calculateRegionDistance(rs[p[1]], rs[p[2]]),
                          grouping)}
    IN IF close = {} THEN NoPair
       ELSE CHOOSE p \in close : \A q \in close :
                p[1] < q[1] \/ (p[1] = q[1] /\ p[2] <= q[2])

\* the nested for loops of the merge pass: the first (i, j), i < j, in loop
\* order whose regions are within groupingDistance (1-based), or NoPair
firstPair(rs, grouping) ==
    LET close == {p \in (1..Len(rs)) \X (1..Len(rs)) :
                    /\ p[1] < p[2]
                    /\ withinGrouping(
                          calculateRegionDistance(rs[p[1]], rs[p[2]]),
                          grouping)}
    IN IF close = {} THEN NoPair
       ELSE CHOOSE p \in close : \A q \in close :
                p[1] < q[1] \/ (p[1] = q[1] /\ p[2] <= q[2])

\* variant: the merged region is stored but region j is not removed
spliceOutNothing(rs, j) == rs

\* initialRegions.splice(j, 1), j 1-based
spliceOut(rs, j) == SubSeq(rs, 1, j - 1) \o SubSeq(rs, j + 1, Len(rs))

\* one merge of the pass: mergeRegions, splice, store at i
mergeAt(rs, i, j) ==
    [spliceOut(rs, j) EXCEPT ![i] = mergeRegions(rs[i], rs[j])]

\* the array detectRegions returns
regionFormat(rs) ==
    [k \in 1..Len(rs) |->
        [id |-> k,
         bounds |-> [x1 |-> rs[k].minX, y1 |-> rs[k].minY,
                     x2 |-> rs[k].maxX, y2 |-> rs[k].maxY],
         elements |-> <<>>]]

\* raster position k of the first pass's loops: y outer, x inner
ScanX(k) == k % imageData.width
ScanY(k) == k \div imageData.width
PixelCount == imageData.width * imageData.height

\* positions from the scan position on that the first pass does not skip
Seeds ==
    {k \in scan..(PixelCount - 1) :
        /\ Key(ScanX(k), ScanY(k)) \notin visited
        /\ isPixelNonTransparent(getPixel(imageData, ScanX(k), ScanY(k)))}

(***************************************************************************)
(* Scenario of region detection: detectRegions on every raster of the      *)
(* sizes below, with every threshold and grouping distance listed.         *)
(***************************************************************************)
RasterSizes == {<<5, 2>>, <<3, 3>>}
AlphaValues == {0, 255}
MinRegionSizes == {1, 2}
GroupingDistances == {0, 2, 3}

Rasters ==
    UNION {[width : {s[1]}, height : {s[2]},
            data : [1..(s[1] * s[2]) -> AlphaValues]] : s \in RasterSizes}

InitRegions ==
    /\ AppIdle
    /\ imageData \in Rasters
    /\ minRegionSize \in MinRegionSizes
    /\ groupingDistance \in GroupingDistances
    /\ visited = {}
    /\ scan = 0
    /\ queue = <<>>
    /\ region = StartRegion(0, 0)
    /\ completed = <<>>
    /\ initialRegions = <<>>
    /\ regions = <<>>
    /\ pc = "scan"
    /\ HistInit
    /\ GeomIdle

\* first pass: the loops run on to the next unvisited opaque pixel and
\* floodFill starts there
Seed ==
    /\ pc = "scan"
    /\ Seeds # {}
    /\ LET k == CHOOSE m \in Seeds : \A n \in Seeds : m <= n
       IN /\ queue' = <<<<ScanX(k), ScanY(k)>>>>
          /\ region' = StartRegion(ScanX(k), ScanY(k))
          /\ scan' = k + 1
    /\ pc' = "fill"
    /\ UNCHANGED <<imageData, minRegionSize, groupingDistance, visited,
                   completed, initialRegions, regions>>

\* one iteration of floodFill's while loop
FillStep ==
    /\ pc = "fill"
    /\ queue # <<>>
    /\ LET x == Head(queue)[1]
           y == Head(queue)[2]
       IN IF Key(x, y) \in visited
             \/ ~isPixelNonTransparent(getPixel(imageData, x, y))
          THEN /\ queue' = Tail(queue)
               /\ UNCHANGED <<visited, region>>
          ELSE /\ visited' = visited \cup {Key(x, y)}
               /\ region' = AddPoint(region, x, y)
               /\ queue' = Tail(queue) \o
                    SelectSeq(neighbors(x, y),
                        LAMBDA n :
                            /\ isWithinBounds(n[1], n[2], imageData.width,
                                              imageData.height)
                            /\ Key(n[1], n[2]) \notin visited')
    /\ UNCHANGED <<imageData, minRegionSize, groupingDistance, scan,
                   completed, initialRegions, regions, pc>>

\* floodFill returns; the region is kept when it is large enough
FillReturn ==
    /\ pc = "fill"
    /\ queue = <<>>
    /\ completed' = Append(completed, region)
    /\ initialRegions' = IF retained(region, minRegionSize)
                         THEN Append(initialRegions, region)
                         ELSE initialRegions
    /\ pc' = "scan"
    /\ UNCHANGED <<imageData, minRegionSize, groupingDistance, visited, scan,
                   queue, region, regions>>

\* the first pass's loops run to their end
ScanEnd ==
    /\ pc = "scan"
    /\ Seeds = {}
    /\ scan' = PixelCount
    /\ pc' = "merge"
    /\ UNCHANGED <<imageData, minRegionSize, groupingDistance, visited,
                   queue, region, completed, initialRegions, regions>>

\* an iteration of the merge pass's while loop that merges a pair
MergeStep ==
    /\ pc = "merge"
    /\ firstPair(initialRegions, groupingDistance) # NoPair
    /\ LET p == firstPair(initialRegions, groupingDistance)
       IN initialRegions' = mergeAt(initialRegions, p[1], p[2])
    /\ UNCHANGED <<imageData, minRegionSize, groupingDistance, visited, scan,
                   queue, region, completed, regions, pc>>

\* the iteration that merges nothing ends the loop; the regions are
\* converted and returned
Emit ==
    /\ pc = "merge"
    /\ firstPair(initialRegions, groupingDistance) = NoPair
    /\ regions' = regionFormat(initialRegions)
    /\ pc' = "done"
    /\ UNCHANGED <<imageData, minRegionSize, groupingDistance, visited, scan,
                   queue, region, completed, initialRegions>>

NextRegions ==
    \/ Seed /\ UNCHANGED <<histVars, geomVars, appVars>>
    \/ FillStep /\ UNCHANGED <<histVars, geomVars, appVars>>
    \/ FillReturn /\ UNCHANGED <<histVars, geomVars, appVars>>
    \/ ScanEnd /\ UNCHANGED <<histVars, geomVars, appVars>>
    \/ MergeStep /\ UNCHANGED <<histVars, geomVars, appVars>>
    \/ Emit /\ UNCHANGED <<histVars, geomVars, appVars>>

SpecRegions == InitRegions /\ [][NextRegions]_vars

\* the arguments of the termination scenario: every blob kept and the widest
\* grouping (the most merges), and single pixels dropped with no grouping
TerminationArguments == {<<1, 3>>, <<2, 0>>}

InitTermination ==
    /\ InitRegions
    /\ <<minRegionSize, groupingDistance>> \in TerminationArguments

\* detectRegions is one synchronous call: it keeps running until it returns
FairSpecRegions ==
    InitTermination /\ [][NextRegions]_vars /\ WF_vars(NextRegions)

(***************************************************************************)
(* Properties of region detection, of specifications SpecRegions and       *)
(* FairSpecRegions                                                         *)
(***************************************************************************)
Pixels == (0..(imageData.width - 1)) \X (0..(imageData.height - 1))
OpaquePixels == {p \in Pixels : getPixel(imageData, p[1], p[2]).a > 0}

Touching(p, q) ==
    p # q /\ Abs(p[1] - q[1]) <= 1 /\ Abs(p[2] - q[2]) <= 1

\* the opaque pixels joined to those of S by a path of touching opaque pixels
RECURSIVE Connected(_)
Connected(S) ==
    LET more == S \cup {q \in OpaquePixels : \E p \in S : Touching(p, q)}
    IN IF more = S THEN S ELSE Connected(more)

PointSet(r) == {<<r.points[k].x, r.points[k].y>> : k \in 1..Len(r.points)}

TightBounds(r) ==
    /\ \A p \in PointSet(r) :
          /\ r.minX <= p[1] /\ p[1] <= r.maxX
          /\ r.minY <= p[2] /\ p[2] <= r.maxY
    /\ \E p \in PointSet(r) : p[1] = r.minX
    /\ \E p \in PointSet(r) : p[1] = r.maxX
    /\ \E p \in PointSet(r) : p[2] = r.minY
    /\ \E p \in PointSet(r) : p[2] = r.maxY

FirstPassOver == pc \in {"merge", "done"}

\* C15: each region floodFill returns is exactly the 8-connected component
\* of opaque pixels of its seed, holds each pixel once, and has the tight
\* bounds of its points; once the first pass is over every opaque pixel is
\* in exactly one such region and no transparent pixel is in any.
C15_BlobsAreComponents ==
    /\ \A k \in 1..Len(completed) :
          LET blob == completed[k]
              seed == <<blob.points[1].x, blob.points[1].y>>
          IN /\ Len(blob.points) >= 1
             /\ PointSet(blob) = Connected({seed})
             /\ Cardinality(PointSet(blob)) = Len(blob.points)
             /\ TightBounds(blob)
    /\ FirstPassOver =>
          \A p \in Pixels :
              Cardinality({k \in 1..Len(completed) :
                              p \in PointSet(completed[k])})
                 = IF p \in OpaquePixels THEN 1 ELSE 0

C15_Witness ==
    /\ pc = "done"
    /\ Len(completed) = 2
    /\ Len(completed[1].points) = 4
    /\ completed[1].minX < completed[1].maxX
    /\ completed[1].minY < completed[1].maxY
    /\ \E p \in PointSet(completed[1]) :
          \A q \in PointSet(completed[1]) :
              Touching(p, q) => (p[1] # q[1] /\ p[2] # q[2])

Done == pc = "done"

\* the regions of the first pass that were kept, by their place in completed
RetainedBlobs ==
    {k \in 1..Len(completed) : Len(completed[k].points) >= minRegionSize}

\* the kept regions whose points lie in region f
BlobsIn(f) == {k \in RetainedBlobs : PointSet(completed[k]) \subseteq PointSet(f)}

Apart(r1, r2) == calculateRegionDistance(r1, r2) > groupingDistance * DistScale

\* C16: when the merge pass has ended, any two distinct output regions are
\* farther apart than groupingDistance (bounding-box distance), every kept
\* blob lies in exactly one output region, and each output region's points
\* and bounding box are the unions of those of the kept blobs merged into it.
C16_MergedApartAndUnions ==
    Done =>
        /\ \A i \in 1..Len(initialRegions), j \in 1..Len(initialRegions) :
              i # j => Apart(initialRegions[i], initialRegions[j])
        /\ \A k \in RetainedBlobs :
              Cardinality({i \in 1..Len(initialRegions) :
                              k \in BlobsIn(initialRegions[i])}) = 1
        /\ Len(regions) = Len(initialRegions)
        /\ \A i \in 1..Len(initialRegions) :
              LET f == initialRegions[i]
                  in == BlobsIn(f)
              IN /\ in # {}
                 /\ PointSet(f) = UNION {PointSet(completed[k]) : k \in in}
                 /\ Cardinality(PointSet(f)) = Len(f.points)
                 /\ \A k \in in :
                       /\ f.minX <= completed[k].minX
                       /\ f.maxX >= completed[k].maxX
                       /\ f.minY <= completed[k].minY
                       /\ f.maxY >= completed[k].maxY
                 /\ \E k \in in : f.minX = completed[k].minX
                 /\ \E k \in in : f.maxX = completed[k].maxX
                 /\ \E k \in in : f.minY = completed[k].minY
                 /\ \E k \in in : f.maxY = completed[k].maxY
                 /\ regions[i].bounds = [x1 |-> f.minX, y1 |-> f.minY,
                                         x2 |-> f.maxX, y2 |-> f.maxY]

C16_Witness ==
    /\ Done
    /\ Cardinality(RetainedBlobs) = 3
    /\ Len(initialRegions) = 2
    /\ \E i \in 1..2 : Cardinality(BlobsIn(initialRegions[i])) = 2

DroppedBlobs == (1..Len(completed)) \ RetainedBlobs

Emitted(k) ==
    \E i \in 1..Len(initialRegions) :
        PointSet(completed[k]) \cap PointSet(initialRegions[i]) # {}

AllRetainedApart ==
    \A a \in RetainedBlobs, b \in RetainedBlobs :
        a # b => Apart(completed[a], completed[b])

\* C17: a blob reaches the output (possibly merged) exactly when it has at
\* least minRegionSize pixels; a smaller blob adds nothing to any output
\* region's points or bounds and never joins two kept blobs that are
\* themselves too far apart; a raster whose blobs are all below the
\* threshold yields no region.
C17_ThresholdFilter ==
    Done =>
        /\ \A k \in 1..Len(completed) :
              Emitted(k) <=> Len(completed[k].points) >= minRegionSize
        /\ \A i \in 1..Len(initialRegions) :
              /\ TightBounds(initialRegions[i])
              /\ \A k \in DroppedBlobs :
                    PointSet(completed[k])
                        \cap PointSet(initialRegions[i]) = {}
        /\ AllRetainedApart => Len(regions) = Cardinality(RetainedBlobs)
        /\ RetainedBlobs = {} => regions = <<>>

C17_Witness ==
    /\ Done
    /\ Len(regions) = 2
    /\ \E a \in RetainedBlobs, b \in RetainedBlobs, d \in DroppedBlobs :
          /\ ~Apart(completed[a], completed[d])
          /\ ~Apart(completed[d], completed[b])
          /\ Apart(completed[a], completed[b])
          /\ Len(completed[a].points) = minRegionSize

SameRegion(a, b) ==
    \E i \in 1..Len(initialRegions) :
        {a, b} \subseteq BlobsIn(initialRegions[i])

\* C18: merging is transitive through chains: kept blobs A, B, C with
\* dist(A,B) <= groupingDistance and dist(B,C) <= groupingDistance end in
\* one output region, also when dist(A,C) > groupingDistance and in
\* whatever order the first pass found them.
C18_ChainsMerge ==
    Done =>
        \A a \in RetainedBlobs, b \in RetainedBlobs, c \in RetainedBlobs :
            (/\ ~Apart(completed[a], completed[b])
             /\ ~Apart(completed[b], completed[c])) => SameRegion(a, c)

C18_Witness ==
    /\ Done
    /\ Len(regions) = 1
    /\ \E a \in RetainedBlobs, b \in RetainedBlobs, c \in RetainedBlobs :
          /\ b < a
          /\ a < c
          /\ ~Apart(completed[a], completed[b])
          /\ ~Apart(completed[b], completed[c])
          /\ Apart(completed[a], completed[c])

\* the kept regions in the order the first pass found them
KeptInOrder ==
    SelectSeq(completed, LAMBDA r : Len(r.points) >= minRegionSize)

\* C19: with exactly two kept blobs the output has two regions when their
\* distance exceeds groupingDistance and one merged region when it is at
\* most groupingDistance; in general, when every pair of kept blobs is
\* farther apart than groupingDistance nothing is merged and the output has
\* as many regions as there are kept blobs.
C19_TwoBlobsAndNoMerge ==
    Done =>
        /\ Cardinality(RetainedBlobs) = 2 =>
              \A a \in RetainedBlobs, b \in RetainedBlobs :
                  a # b =>
                      Len(regions) = IF Apart(completed[a], completed[b])
                                     THEN 2 ELSE 1
        /\ AllRetainedApart =>
              /\ Len(regions) = Cardinality(RetainedBlobs)
              /\ initialRegions = KeptInOrder

C19_Witness ==
    /\ Done
    /\ groupingDistance > 0
    /\ Cardinality(RetainedBlobs) = 2
    /\ Len(regions) = 1
    /\ \E a \in RetainedBlobs, b \in RetainedBlobs :
          calculateRegionDistance(completed[a], completed[b])
              = groupingDistance * DistScale

RECURSIVE PointCount(_)
PointCount(rs) ==
    IF rs = <<>> THEN 0 ELSE Len(Head(rs).points) + PointCount(Tail(rs))

\* every pixel is marked visited once and the queue holds in-bounds pixels,
\* at most eight for each pixel marked and the seed
QueueDiscipline ==
    /\ Cardinality(visited)
          = PointCount(completed) + IF pc = "fill" THEN Len(region.points)
                                                   ELSE 0
    /\ \A k \in 1..Len(queue) :
          isWithinBounds(queue[k][1], queue[k][2],
                         imageData.width, imageData.height)
    /\ Len(queue) <= 8 * Cardinality(visited) + 1
    /\ FirstPassOver /\ RetainedBlobs # {} =>
          /\ Len(initialRegions) >= 1
          /\ Cardinality(RetainedBlobs) - Len(initialRegions)
                <= Cardinality(RetainedBlobs) - 1

\* a pixel enters the queue only while unvisited, and a merge leaves one
\* region fewer
StepDiscipline ==
    /\ (pc = "fill" /\ pc' = "fill") =>
          \A k \in (Len(queue) + 1)..(Len(queue') + 1) :
              k <= Len(queue') =>
                  Key(queue'[k][1], queue'[k][2]) \notin visited'
    /\ (pc = "merge" /\ pc' = "merge") =>
          Len(initialRegions') = Len(initialRegions) - 1

\* C20: detectRegions terminates on every finite raster: each flood fill's
\* queue runs empty (a pixel is marked visited at most once and only
\* unvisited in-bounds neighbours are enqueued) and the merge loop ends
\* after at most n-1 merges of n kept regions, each merge leaving one
\* region fewer.
C20_Terminates ==
    /\ <>Done
    /\ []QueueDiscipline
    /\ [][StepDiscipline]_vars

C20_Witness ==
    /\ Done
    /\ Cardinality(RetainedBlobs) = 3
    /\ Len(initialRegions) = 1
    /\ Cardinality(visited) >= 4

(***************************************************************************)
(* Scenario of region detection on a blank canvas: detectRegions from its  *)
(* entry, on canvases of any small size (a side of zero included) whose    *)
(* pixels are all transparent.                                             *)
(***************************************************************************)
IndexSizeError == "IndexSizeError: The source width or height is 0"

BlankSides == 0..3

BlankRasters ==
    {[width |-> w, height |-> h, data |-> [k \in 1..(w * h) |-> 0]] :
        w \in BlankSides, h \in BlankSides}

\* imageData holds the canvas handed to detectRegions; nothing has run yet
InitBlank ==
    /\ AppIdle
    /\ imageData \in BlankRasters
    /\ minRegionSize \in MinRegionSizes
    /\ groupingDistance \in GroupingDistances
    /\ visited = {}
    /\ scan = 0
    /\ queue = <<>>
    /\ region = StartRegion(0, 0)
    /\ completed = <<>>
    /\ initialRegions = <<>>
    /\ regions = <<>>
    /\ pc = "call"
    /\ HistInit
    /\ GeomIdle

\* ctx.getImageData(0, 0, canvas.width, canvas.height): the canvas API
\* throws IndexSizeError when the width or the height is zero, and the
\* exception leaves detectRegions; otherwise the first pass begins
GetImageData ==
    /\ pc = "call"
    /\ pc' = IF imageData.width = 0 \/ imageData.height = 0
             THEN "threw" ELSE "scan"
    /\ UNCHANGED <<imageData, minRegionSize, groupingDistance, visited, scan,
                   queue, region, completed, initialRegions, regions>>

NextBlank ==
    \/ GetImageData /\ UNCHANGED <<histVars, geomVars, appVars>>
    \/ ScanEnd /\ UNCHANGED <<histVars, geomVars, appVars>>
    \/ Emit /\ UNCHANGED <<histVars, geomVars, appVars>>

SpecBlank == InitBlank /\ [][NextBlank]_vars

\* C21: region detection on a zero-size raster or on a raster whose pixels
\* are all transparent raises no error and returns an empty region list.
C21_BlankGivesNoRegions ==
    OpaquePixels = {} =>
        /\ pc # "threw"
        /\ Done => regions = <<>>

(***************************************************************************)
(* The App and its pointer handlers (createMouseHandlers).                 *)
(*                                                                         *)
(* A handler runs to its end with the state of the render that created it: *)
(* elements is history[index], and what it sets shows in the next render.  *)
(* A handler calls setElements at most once, so the history after it is    *)
(* one setState applied to the history before it.  What a handler set      *)
(* before it threw stays set.                                              *)
(*                                                                         *)
(* Snapshots are arrays of references: [...prevState, element], filter and *)
(* [...elements] copy the array, not the elements.  The field oid names    *)
(* the object an entry refers to; entries of two snapshots with one oid    *)
(* are one object, and assigning to a field of it shows in both.           *)
(***************************************************************************)
\* selectedElement === null
NoElement == [type |-> "null"]

\* elementsCopy[id] = ... beyond the end leaves slots that were never assigned
Hole == [type |-> Undefined, id |-> -1, oid |-> 0]

\* an element created from x1, y1 that were undefined
NaNElement(id, type, oid) ==
    [id |-> id, type |-> type, oid |-> oid, coordinates |-> "NaN"]

IsHole(element) == element.type = Undefined
IsNaN(element) == "coordinates" \in DOMAIN element

\* every slot holds an element with numbers for coordinates
Sound(elems) ==
    \A k \in 1..Len(elems) : ~IsHole(elems[k]) /\ ~IsNaN(elems[k])

\* const [elements, setElements, undo, redo] = useHistory([])
Document == history[index + 1]

Oids(h) == UNION {{h[k][j].oid : j \in 1..Len(h[k])} : k \in 1..Len(h)}

\* a new object is none of the objects some snapshot refers to
FreshOid(h) ==
    CHOOSE n \in 1..(Cardinality(Oids(h)) + 1) :
        /\ n \notin Oids(h)
        /\ \A m \in 1..(n - 1) : m \in Oids(h)

WithOid(element, oid) == [oid |-> oid] @@ element

\* element.field = value on the object oid: every snapshot that refers to
\* the object shows the assignment
AssignPoints(h, oid, points) ==
    [k \in 1..Len(h) |->
        [j \in 1..Len(h[k]) |->
            IF h[k][j].oid = oid /\ "points" \in DOMAIN h[k][j]
            THEN [h[k][j] EXCEPT !.points = points]
            ELSE h[k][j]]]

\* prevState.filter(el => el.id !== id)
RECURSIVE FilterOut(_, _)
FilterOut(elems, id) ==
    IF elems = <<>> THEN <<>>
    ELSE IF Head(elems).id # id
         THEN <<Head(elems)>> \o FilterOut(Tail(elems), id)
         ELSE FilterOut(Tail(elems), id)

\* what a handler comes to: the React state and the history after it, and
\* whether it returned or threw
After(a, h, i, r) == [app |-> a, history |-> h, index |-> i, result |-> r]

\* variant: every commit of a handler is a fresh snapshot
SetElementsAppending(a, newState, overwrite, r) ==
    After(a, SetStateHistory(history, index, ValueAction(newState), FALSE),
          SetStateIndex(index, FALSE), r)

\* setElements(newState, overwrite) called by a handler
SetElements(a, newState, overwrite, r) ==
    After(a, SetStateHistory(history, index, ValueAction(newState), overwrite),
          SetStateIndex(index, overwrite), r)

NotAnObject == "TypeError: Cannot read properties of undefined"

DestructureUndefined ==
    "TypeError: Cannot destructure property of undefined"

NotIterable == "TypeError: elementsCopy[id].points is not iterable"

\* the options argument left out
NoOptions == [none |-> TRUE]

\* elementsCopy after elementsCopy[id] = element on a copy of elems
Assigned(elems, id, element) ==
    [k \in 1..Max(Len(elems), id + 1) |->
        IF k = id + 1 THEN element
        ELSE IF k <= Len(elems) THEN elems[k] ELSE Hole]

\* updateElement of createMouseHandlers, with the objects it creates and
\* the object it assigns to; numbers says that x1 and y1 were numbers
UpdateElement(a, id, x1, y1, x2, y2, numbers, type, options) ==
    LET elems == Document
        oid == FreshOid(history)
    IN CASE type \in {"line", "rectangle"} ->
              LET created ==
                      updateElement(elems, id, x1, y1, x2, y2, type, options,
                                    DefaultPencilSize).value[id + 1]
                  element == IF numbers THEN WithOid(created, oid)
                                        ELSE NaNElement(id, type, oid)
              IN SetElements(a, Assigned(elems, id, element), TRUE,
                             ReturnedUndefined)
         [] type = "pencil" ->
              IF id < 0 \/ id >= Len(elems)
              THEN After(a, history, index, Threw(NotAnObject))
              ELSE IF "points" \notin DOMAIN elems[id + 1]
              THEN After(a, history, index, Threw(NotIterable))
              ELSE LET points == Append(elems[id + 1].points,
                                        [x |-> x2, y |-> y2])
                       h == AssignPoints(history, elems[id + 1].oid, points)
                   IN After(a,
                            SetStateHistory(h, index,
                                            ValueAction(h[index + 1]), TRUE),
                            SetStateIndex(index, TRUE), ReturnedUndefined)
         [] type = "text" ->
              IF "text" \notin DOMAIN options
              THEN After(a, history, index, Threw(NotAnObject))
              ELSE LET created ==
                           updateElement(elems, id, x1, y1, x2, y2, type,
                                         options, DefaultPencilSize).value[id + 1]
                       element == IF numbers THEN WithOid(created, oid)
                                             ELSE NaNElement(id, type, oid)
                   IN SetElements(a, Assigned(elems, id, element), TRUE,
                                  ReturnedUndefined)
         [] OTHER -> After(a, history, index, Threw(TypeError))

\* { ...element, xOffsets, yOffsets } and { ...element, offsetX, offsetY }:
\* a new object
WithOffsets(element, clientX, clientY) ==
    IF element.type = "pencil"
    THEN [xOffsets |-> [k \in 1..Len(element.points) |->
                           clientX - element.points[k].x],
          yOffsets |-> [k \in 1..Len(element.points) |->
                           clientY - element.points[k].y]]
             @@ [element EXCEPT !.oid = 0]
    ELSE [offsetX |-> clientX - element.x1, offsetY |-> clientY - element.y1]
             @@ [element EXCEPT !.oid = 0]

\* variant: selecting commits nothing, the drag overwrites the snapshot
\* it started from
CommitSelectionInPlace(a) == SetElements(a, Document, TRUE, ReturnedUndefined)

\* setElements(prevState => prevState) of the selection branch: the
\* collection once more, as a new snapshot
CommitSelection(a) == SetElements(a, Document, FALSE, ReturnedUndefined)

\* variant: the position is kept, the action is not set
StartPanningPositionOnly(clientX, clientY) ==
    [app EXCEPT !.startPanMousePosition = [x |-> clientX, y |-> clientY]]

\* setAction("panning"); setStartPanMousePosition({ x: clientX, y: clientY })
StartPanning(clientX, clientY) ==
    [app EXCEPT !.action = "panning",
                !.startPanMousePosition = [x |-> clientX, y |-> clientY]]

\* variant: the two actions the wrong way round
ActionForPositionSwapped(position) ==
    IF position = "inside" THEN "resizing" ELSE "moving"

\* if (element.position === "inside") setAction("moving");
\* else setAction("resizing")
ActionForPosition(position) ==
    IF position = "inside" THEN "moving" ELSE "resizing"

handleMouseDown(clientX, clientY, panning) ==
    LET elems == Document
        drawing == [app EXCEPT !.isDrawing = TRUE]
    IN IF app.action = "writing"
       THEN After(app, history, index, ReturnedUndefined)
       ELSE IF panning
       THEN After(StartPanning(clientX, clientY), history, index,
                  ReturnedUndefined)
       ELSE IF app.tool = "capture"
       THEN LET element == WithOid(createElement(Len(elems), clientX, clientY,
                                                 clientX, clientY, "capture",
                                                 DefaultPencilSize),
                                   FreshOid(history))
            IN SetElements([drawing EXCEPT !.selectedElement = element,
                                           !.action = "drawing"],
                           Append(elems, element), FALSE, ReturnedUndefined)
       ELSE IF app.tool = "eraser"
       THEN LET erasing == [drawing EXCEPT !.action = "erasing"]
                elementToErase == getElementAtPosition(clientX, clientY, elems)
            IN IF elementToErase.outcome = "threw"
               THEN After(erasing, history, index, elementToErase)
               ELSE IF elementToErase.outcome = "returned"
               THEN SetElements(erasing,
                                FilterOut(elems, elementToErase.value.id),
                                FALSE, ReturnedUndefined)
               ELSE After(erasing, history, index, ReturnedUndefined)
       ELSE IF app.tool = "selection"
       THEN LET element == getElementAtPosition(clientX, clientY, elems)
            IN IF element.outcome = "threw"
               THEN After(drawing, history, index, element)
               ELSE IF element.outcome = "returned"
               THEN CommitSelection(
                        [drawing EXCEPT
                            !.selectedElement =
                                WithOffsets(element.value, clientX, clientY),
                            !.action =
                                ActionForPosition(element.value.position)])
               ELSE After(drawing, history, index, ReturnedUndefined)
       ELSE LET created == createElementCall(Len(elems), clientX, clientY,
                                             clientX, clientY, app.tool,
                                             DefaultPencilSize)
                element == WithOid(created.value, FreshOid(history))
            IN IF created.outcome = "threw"
               THEN After(drawing, history, index, created)
               ELSE SetElements(
                        [drawing EXCEPT
                            !.selectedElement = element,
                            !.action = IF app.tool = "text" THEN "writing"
                                                            ELSE "drawing"],
                        Append(elems, element), FALSE, ReturnedUndefined)

handleMouseMove(clientX, clientY) ==
    LET elems == Document
        selectedElement == app.selectedElement
    IN IF app.action = "panning"
       THEN After([app EXCEPT
                      !.panOffset =
                          [x |-> @.x + clientX - app.startPanMousePosition.x,
                           y |-> @.y + clientY - app.startPanMousePosition.y]],
                  history, index, ReturnedUndefined)
       ELSE IF app.action = "erasing"
       THEN LET elementToErase == getElementAtPosition(clientX, clientY, elems)
            IN IF elementToErase.outcome = "threw"
               THEN After(app, history, index, elementToErase)
               ELSE IF elementToErase.outcome = "returned"
               THEN SetElements(app, FilterOut(elems, elementToErase.value.id),
                                FALSE, ReturnedUndefined)
               ELSE After(app, history, index, ReturnedUndefined)
       ELSE IF app.tool = "selection"
               /\ getElementAtPosition(clientX, clientY, elems).outcome = "threw"
       THEN After(app, history, index,
                  getElementAtPosition(clientX, clientY, elems))
       ELSE IF app.action = "drawing"
       THEN IF Len(elems) = 0
            THEN After(app, history, index, Threw(DestructureUndefined))
            ELSE LET last == elems[Len(elems)]
                     numbers == "x1" \in DOMAIN last
                     x1 == IF numbers THEN last.x1 ELSE 0
                     y1 == IF numbers THEN last.y1 ELSE 0
                 IN IF app.tool = "capture"
                    THEN SetElements(app,
                             Assigned(elems, Len(elems) - 1,
                                 [x2 |-> clientX, y2 |-> clientY] @@
                                     [last EXCEPT !.oid = FreshOid(history)]),
                             TRUE, ReturnedUndefined)
                    ELSE UpdateElement(app, Len(elems) - 1, x1, y1,
                                       clientX, clientY, numbers, app.tool,
                                       NoOptions)
       ELSE IF app.action = "moving"
       THEN IF selectedElement.type = "pencil"
            THEN LET newPoints ==
                         [k \in 1..Len(selectedElement.points) |->
                             [x |-> clientX - selectedElement.xOffsets[k],
                              y |-> clientY - selectedElement.yOffsets[k]]]
                     id == selectedElement.id
                     moved == IF id < Len(elems)
                              THEN [elems[id + 1] EXCEPT
                                       !.points = newPoints,
                                       !.oid = FreshOid(history)]
                              ELSE [Hole EXCEPT !.oid = FreshOid(history)]
                 IN SetElements(app, Assigned(elems, id, moved), TRUE,
                                ReturnedUndefined)
            ELSE LET width == selectedElement.x2 - selectedElement.x1
                     height == selectedElement.y2 - selectedElement.y1
                     newX1 == clientX - selectedElement.offsetX
                     newY1 == clientY - selectedElement.offsetY
                     options == IF selectedElement.type = "text"
                                THEN [text |-> selectedElement.text]
                                ELSE NoOptions
                 IN UpdateElement(app, selectedElement.id, newX1, newY1,
                                  newX1 + width, newY1 + height, TRUE,
                                  selectedElement.type, options)
       ELSE IF app.action = "resizing"
       THEN LET resized == resizedCoordinates(clientX, clientY,
                                              selectedElement.position,
                                              selectedElement)
                c == resized.value
            IN IF resized.outcome = "null"
               THEN After(app, history, index, Threw(DestructureError))
               ELSE UpdateElement(app, selectedElement.id, c.x1, c.y1,
                                  c.x2, c.y2, TRUE, selectedElement.type,
                                  NoOptions)
       ELSE After(app, history, index, ReturnedUndefined)

\* the end of handleMouseUp, from if (action === "writing") return
Settled(after) ==
    IF app.action = "writing" THEN after
    ELSE [after EXCEPT !.app.action = "none",
                       !.app.selectedElement = NoElement]

handleMouseUp(clientX, clientY) ==
    LET elems == Document
        selectedElement == app.selectedElement
        released == [app EXCEPT !.isDrawing = FALSE]
    IN IF selectedElement = NoElement
       THEN Settled(After(released, history, index, ReturnedUndefined))
       ELSE IF /\ selectedElement.type = "text"
               /\ "offsetX" \in DOMAIN selectedElement
               /\ clientX - selectedElement.offsetX = selectedElement.x1
               /\ clientY - selectedElement.offsetY = selectedElement.y1
       THEN After([released EXCEPT !.action = "writing"], history, index,
                  ReturnedUndefined)
       ELSE IF selectedElement.id >= Len(elems)
       THEN After(released, history, index, Threw(DestructureUndefined))
       ELSE LET element == elems[selectedElement.id + 1]
            IN IF app.action \in {"drawing", "resizing"}
                  /\ adjustmentRequired(element.type)
               THEN LET c == adjustElementCoordinates(element)
                        updated == UpdateElement(released, element.id,
                                                 c.x1, c.y1, c.x2, c.y2, TRUE,
                                                 element.type, NoOptions)
                    IN IF updated.result.outcome = "threw" THEN updated
                       ELSE Settled(updated)
               ELSE Settled(After(released, history, index, ReturnedUndefined))

\* onBlur of the textarea rendered while action === "writing"
handleBlur(value) ==
    LET selectedElement == app.selectedElement
        cleared == [app EXCEPT !.action = "none",
                               !.selectedElement = NoElement]
        numbers == "x1" \in DOMAIN selectedElement
    IN IF selectedElement = NoElement
       THEN After(app, history, index, Threw(DestructureError))
       ELSE UpdateElement(cleared, selectedElement.id,
                          IF numbers THEN selectedElement.x1 ELSE 0,
                          IF numbers THEN selectedElement.y1 ELSE 0,
                          0, 0, numbers, selectedElement.type,
                          [text |-> value])

(***************************************************************************)
(* Scenario of the App: pointer events, the textarea's blur, the undo and  *)
(* redo keys and the tool buttons, in any order.  A pointer can be         *)
(* released outside the canvas, so a pointer-down can follow a             *)
(* pointer-down, and keys and buttons work while a gesture runs.           *)
(***************************************************************************)
\* number of events of one run
MaxSteps == 4
\* pointer positions, on the diagonal: x = y
AppPoints == {0, 10, 20}
\* the tool buttons (capture is left out)
Tools == {"selection", "rectangle", "line", "pencil", "text", "eraser"}
\* what the textarea can hold at blur
Texts == {"", "hi"}

\* documents drawn before the run starts: a rectangle from (0,0) to (10,10),
\* then a line from (10,10) to (20,20) or a pencil stroke from (20,20) to
\* (10,10), then the rectangle erased; or a text typed at (20,20)
DrawnRectangle ==
    WithOid(updateElement(<<>>, 0, 0, 0, 10, 10, "rectangle", NoOptions,
                          DefaultPencilSize).value[1], 1)
DrawnLine ==
    WithOid(updateElement(<<DrawnRectangle>>, 1, 10, 10, 20, 20, "line",
                          NoOptions, DefaultPencilSize).value[2], 2)
DrawnStroke ==
    WithOid([createElement(1, 20, 20, 20, 20, "pencil", DefaultPencilSize)
                EXCEPT !.points = Append(@, [x |-> 10, y |-> 10])], 2)

DrawnText ==
    WithOid(updateElement(<<>>, 0, 20, 20, 0, 0, "text", [text |-> "hi"],
                          DefaultPencilSize).value[1], 1)

InitialHistories ==
    {<<<<>>>>, <<<<>>, <<DrawnRectangle>>>>, <<<<>>, <<DrawnText>>>>}
        \cup {<<<<>>, <<DrawnRectangle>>, <<DrawnRectangle, second>>>> :
                 second \in {DrawnLine, DrawnStroke}}
        \cup {<<<<>>, <<DrawnRectangle>>, <<DrawnRectangle, DrawnLine>>,
                <<DrawnLine>>>>}

Init ==
    /\ history \in InitialHistories
    /\ index = Len(history) - 1
    /\ trace = <<>>
    /\ prevIndex = index
    /\ prevHistory = history
    /\ GeomIdle
    /\ RegionIdle
    /\ \E t \in Tools :
          app = [action |-> "none", tool |-> t, selectedElement |-> NoElement,
                 startPanMousePosition |-> [x |-> 0, y |-> 0],
                 panOffset |-> [x |-> 0, y |-> 0], isDrawing |-> FALSE]
    /\ prevApp = app
    /\ steps = 0
    /\ timer = NoTimer
    /\ gesture = [phase |-> "idle", cut |-> "none", elements |-> <<>>,
                  index |-> 0, length |-> 1, tool |-> app.tool,
                  action |-> "none"]

\* an event handled: what the handler came to becomes the next render
Rendered(name, x, y, after, g) ==
    /\ steps' = steps + 1
    /\ call' = name
    /\ px' = x
    /\ py' = y
    /\ app' = after.app
    /\ history' = after.history
    /\ index' = after.index
    /\ result' = after.result
    /\ prevApp' = app
    /\ prevHistory' = history
    /\ prevIndex' = index
    /\ gesture' = g
    /\ UNCHANGED <<trace, elements, drawn, regionVars>>

\* an event handled by the handlers that set no timer
Handled(name, x, y, after, g) ==
    /\ Rendered(name, x, y, after, g)
    /\ UNCHANGED timer

\* the run goes on: the bound on its length, and a document a render can
\* draw
Running == steps < MaxSteps /\ Sound(Document)

\* the running gesture was cut into by another event
Disturbed == IF gesture.phase = "open" THEN [gesture EXCEPT !.cut = "other"]
             ELSE [gesture EXCEPT !.phase = "idle"]

\* the running gesture was cut into by the undo or redo key
KeyPressed ==
    IF gesture.phase = "open"
    THEN [gesture EXCEPT !.cut = IF @ = "other" THEN @ ELSE "keys"]
    ELSE [gesture EXCEPT !.phase = "idle"]

PointerDown(x, panning) ==
    /\ Running
    /\ tag' = IF panning THEN "panning" ELSE "primary"
    /\ Handled("handleMouseDown", x, x, handleMouseDown(x, x, panning),
            IF gesture.phase = "open" \/ app.action # "none" THEN Disturbed
            ELSE [phase |-> "open", cut |-> "none", elements |-> Document,
                  index |-> index, length |-> Len(history),
                  tool |-> app.tool,
                  action |-> handleMouseDown(x, x, panning).app.action])

PointerMove(x) ==
    /\ Running
    /\ tag' = "none"
    /\ Handled("handleMouseMove", x, x, handleMouseMove(x, x),
               IF gesture.phase = "open" THEN gesture
               ELSE [gesture EXCEPT !.phase = "idle"])

PointerUp(x) ==
    /\ Running
    /\ tag' = "none"
    /\ Handled("handleMouseUp", x, x, handleMouseUp(x, x),
            IF gesture.phase = "open" THEN [gesture EXCEPT !.phase = "done"]
            ELSE [gesture EXCEPT !.phase = "idle"])

Blur(value) ==
    /\ Running
    /\ tag' = "none"
    /\ app.action = "writing"
    /\ Handled("handleBlur", px, py, handleBlur(value), Disturbed)

\* ctrl+z: undo()
KeyUndo ==
    /\ Running
    /\ tag' = "none"
    /\ Handled("undo", px, py,
            After(app, history, UndoIndex(index, index), ReturnedUndefined),
            IF gesture.phase = "done" THEN [gesture EXCEPT !.phase = "undone"]
            ELSE KeyPressed)

\* ctrl+shift+z: redo()
KeyRedo ==
    /\ Running
    /\ tag' = "none"
    /\ Handled("redo", px, py,
            After(app, history, RedoIndex(history, index, index),
                  ReturnedUndefined),
            KeyPressed)

\* a tool button, pressed between gestures: setTool
SelectTool(t) ==
    /\ Running
    /\ tag' = "none"
    /\ app.action = "none"
    /\ t # app.tool
    /\ Handled("setTool", px, py,
               After([app EXCEPT !.tool = t], history, index,
                     ReturnedUndefined),
               Disturbed)

Next ==
    \/ \E x \in AppPoints, panning \in BOOLEAN : PointerDown(x, panning)
    \/ \E x \in AppPoints : PointerMove(x)
    \/ \E x \in AppPoints : PointerUp(x)
    \/ \E value \in Texts : Blur(value)
    \/ KeyUndo
    \/ KeyRedo
    \/ \E t \in Tools : SelectTool(t)

Spec == Init /\ [][Next]_vars

(***************************************************************************)
(* Properties of the App, of specification Spec.                           *)
(***************************************************************************)
\* every element's id is the index it is stored at
IdIsIndex(elems) == \A k \in 1..Len(elems) : elems[k].id = k - 1

\* C22: an element's id equals its index in the collection: no event
\* (create, drag update, eraser deletion, undo, redo) takes a document in
\* which that holds to one in which it does not.
C22_IdIsIndex == [][IdIsIndex(Document) => IdIsIndex(Document')]_vars

\* the values setAction is called with
ActionValues ==
    {"none", "panning", "drawing", "moving", "resizing", "erasing", "writing"}

\* C23: action is one of the seven values; every pointer-up leaves action
\* none and no element selected, or, while a text element is edited, action
\* writing and that text element selected; action writing implies that an
\* element is selected.
C23_PointerUpSettles ==
    /\ app.action \in ActionValues
    /\ call = "handleMouseUp" =>
          \/ app.action = "none" /\ app.selectedElement = NoElement
          \/ app.action = "writing" /\ app.selectedElement.type = "text"
    /\ app.action = "writing" => app.selectedElement # NoElement

\* the collection before the last event
PrevDocument == prevHistory[prevIndex + 1]

\* the last event was a pointer-move in one of these states, and it changed
\* the collection
MoveChanged(states) ==
    /\ call = "handleMouseMove"
    /\ prevApp.action \in states
    /\ Document # PrevDocument

\* C24 as stated: every pointer-move that changes the collection while
\* drawing, moving, resizing or erasing leaves history length and cursor
\* as they were.
C24_MovesOverwrite ==
    MoveChanged({"drawing", "moving", "resizing", "erasing"}) =>
        Len(history) = Len(prevHistory) /\ index = prevIndex

\* C24, amended: a pointer-move that changes the collection while drawing,
\* moving or resizing leaves history length and cursor as they were; one
\* that erases an element commits the deletion as a new snapshot: the cursor
\* moves on by one and the new snapshot is the last.
C24_DragsOverwrite ==
    /\ MoveChanged({"drawing", "moving", "resizing"}) =>
          Len(history) = Len(prevHistory) /\ index = prevIndex
    /\ MoveChanged({"erasing"}) =>
          index = prevIndex + 1 /\ Len(history) = index + 1

C24_Witness ==
    /\ MoveChanged({"moving"})
    /\ index = prevIndex
    /\ Len(history) = 3

\* the last event was a pointer-up that returned
PointerUpReturned == call = "handleMouseUp" /\ result.outcome # "threw"

\* the last event was a pointer-up that ended a drawing or resizing
\* interaction
InteractionEnded ==
    /\ PointerUpReturned
    /\ prevApp.action \in {"drawing", "resizing"}
    /\ prevApp.selectedElement # NoElement

\* the index of the active element
ActiveSlot == prevApp.selectedElement.id + 1

Canonical(element) ==
    IF element.type = "rectangle"
    THEN element.x1 <= element.x2 /\ element.y1 <= element.y2
    ELSE element.x1 < element.x2
            \/ (element.x1 = element.x2 /\ element.y1 <= element.y2)

\* the same rectangle by its extents, the same line by its two endpoints
SameShape(e, f) ==
    /\ e.type = f.type
    /\ e.id = f.id
    /\ IF e.type = "rectangle"
       THEN /\ {e.x1, e.x2} = {f.x1, f.x2}
            /\ {e.y1, e.y2} = {f.y1, f.y2}
       ELSE {<<e.x1, e.y1>>, <<e.x2, e.y2>>} = {<<f.x1, f.y1>>, <<f.x2, f.y2>>}

Completed(states) ==
    /\ gesture.phase \in {"done", "undone"}
    /\ gesture.cut = "none"
    /\ gesture.action \in states

DrawGesture ==
    Completed({"drawing"}) /\ gesture.tool \in {"line", "rectangle", "pencil"}

DragGesture == Completed({"moving", "resizing"})

\* C26: a complete draw gesture with the line, rectangle or pencil tool, and
\* a complete select-and-move or select-and-resize gesture, leaves one
\* snapshot after the one it started from, the cursor on it; a single undo()
\* after the gesture makes the collection what it was before the
\* pointer-down.
C26_GestureIsOneUndoStep ==
    (DrawGesture \/ DragGesture) =>
        /\ gesture.phase = "done" =>
              /\ index = gesture.index + 1
              /\ Len(history) = gesture.index + 2
              /\ history[gesture.index + 1] = gesture.elements
        /\ gesture.phase = "undone" =>
              /\ index = gesture.index
              /\ Document = gesture.elements

\* a rectangle dragged to another place and the drag undone
C26_Witness ==
    /\ DragGesture
    /\ gesture.phase = "undone"
    /\ Document = gesture.elements
    /\ Len(history) > index + 1
    /\ history[index + 2] # Document

(***************************************************************************)
(* The eraser of the single-file App: a pointer-move with the eraser tool  *)
(* marks the points of pencil strokes under it as erased.                  *)
(***************************************************************************)
\* useState(10)
EraserSize == 10

\* Math.sqrt(dx^2 + dy^2) <= eraserSize, on integers
\* variant: a point at exactly eraserSize is left alone
isPointNearEraserStrict(x, y, eraserX, eraserY, eraserSize) ==
    (x - eraserX) * (x - eraserX) + (y - eraserY) * (y - eraserY)
        < eraserSize * eraserSize

isPointNearEraser(x, y, eraserX, eraserY, eraserSize) ==
    (x - eraserX) * (x - eraserX) + (y - eraserY) * (y - eraserY)
        <= eraserSize * eraserSize

\* point.isErased = true
Erased(point) ==
    [isErased |-> TRUE] @@ [k \in DOMAIN point \ {"isErased"} |-> point[k]]

\* the points of a stroke after the inner forEach
PointsErased(points, clientX, clientY) ==
    [k \in 1..Len(points) |->
        IF ~isErased(points[k])
           /\ isPointNearEraser(points[k].x, points[k].y, clientX, clientY,
                                EraserSize)
        THEN Erased(points[k]) ELSE points[k]]

\* the outer forEach: the assignments land on the point objects, which
\* every snapshot holding the stroke refers to
RECURSIVE StrokesErased(_, _, _, _)
StrokesErased(h, elems, clientX, clientY) ==
    IF elems = <<>> THEN h
    ELSE LET element == Head(elems)
             marked == IF element.type = "pencil"
                       THEN AssignPoints(h, element.oid,
                                PointsErased(element.points, clientX, clientY))
                       ELSE h
         IN StrokesErased(marked, Tail(elems), clientX, clientY)

\* handleMouseMove with tool === "eraser"
eraserMove(clientX, clientY) ==
    LET marked == StrokesErased(history, Document, clientX, clientY)
        hasChanges == marked # history
    IN IF hasChanges
       THEN After(app,
                  SetStateHistory(marked, index,
                                  ValueAction(marked[index + 1]), TRUE),
                  SetStateIndex(index, TRUE), ReturnedUndefined)
       ELSE After(app, history, index, ReturnedUndefined)

\* two strokes drawn one after the other: the first is in both snapshots
FirstStroke ==
    WithOid([createElement(0, 0, 0, 0, 0, "pencil", DefaultPencilSize)
                EXCEPT !.points = @ \o <<[x |-> 10, y |-> 10],
                                         [x |-> 20, y |-> 20]>>], 1)
SecondStroke ==
    WithOid([createElement(1, 20, 0, 20, 0, "pencil", DefaultPencilSize)
                EXCEPT !.points = Append(@, [x |-> 30, y |-> 0])], 2)

\* where the eraser is moved to
EraserPoints ==
    {<<0, 0>>, <<10, 10>>, <<16, 16>>, <<16, 18>>, <<25, 0>>, <<50, 50>>}

InitPointEraser ==
    /\ history \in {<<<<>>, <<FirstStroke>>>>,
                    <<<<>>, <<FirstStroke>>, <<FirstStroke, SecondStroke>>>>,
                    <<<<>>, <<DrawnRectangle>>,
                      <<DrawnRectangle,
                        [FirstStroke EXCEPT !.id = 1, !.oid = 2]>>>>}
    /\ index = Len(history) - 1
    /\ trace = <<>>
    /\ prevIndex = index
    /\ prevHistory = history
    /\ GeomIdle
    /\ RegionIdle
    /\ app = [action |-> "none", tool |-> "eraser",
              selectedElement |-> NoElement,
              startPanMousePosition |-> [x |-> 0, y |-> 0],
              panOffset |-> [x |-> 0, y |-> 0], isDrawing |-> FALSE]
    /\ prevApp = app
    /\ steps = 0
    /\ timer = NoTimer
    /\ gesture = [phase |-> "idle", cut |-> "none", elements |-> <<>>,
                  index |-> 0, length |-> 1, tool |-> app.tool,
                  action |-> "none"]

EraserMove(x, y) ==
    /\ Running
    /\ tag' = "none"
    /\ Handled("handleMouseMove", x, y, eraserMove(x, y), gesture)

NextPointEraser ==
    \/ \E at \in EraserPoints : EraserMove(at[1], at[2])
    \/ KeyUndo
    \/ KeyRedo

SpecPointEraser == InitPointEraser /\ [][NextPointEraser]_vars

\* C27: no event changes a snapshot other than the one at the cursor: every
\* other snapshot the history still holds is element for element and point
\* for point what it was before the event.
C27_OtherSnapshotsKept ==
    \A k \in 1..Len(history) :
        (k # index + 1 /\ k <= Len(prevHistory)) => history[k] = prevHistory[k]

\* C28: a pointer-move while moving or resizing changes the selected element
\* and nothing else: the collection keeps its length and every element but
\* the one hit on pointer-down is what it was, also after eraser deletions.
C28_MoveChangesSelectedOnly ==
    (/\ call = "handleMouseMove"
     /\ prevApp.action \in {"moving", "resizing"}
     /\ result.outcome # "threw") =>
        /\ Len(Document) = Len(PrevDocument)
        /\ \A k \in 1..Len(PrevDocument) :
               PrevDocument[k].id # prevApp.selectedElement.id =>
                   Document[k] = PrevDocument[k]

\* C29: no two elements of the collection have the same id: the id given to
\* a new element, the length of the collection, is the id of no element in
\* it, also after eraser deletions, undo and redo.
C29_IdsUnique ==
    \A j, k \in 1..Len(Document) :
        (j # k /\ ~IsHole(Document[j]) /\ ~IsHole(Document[k])) =>
            Document[j].id # Document[k].id

\* the last event was a pointer-move or the pointer-up of a drawing
\* interaction that undo() or redo(), and nothing else, had cut into
AfterKeysWhileDrawing ==
    /\ gesture.action = "drawing"
    /\ gesture.cut = "keys"
    /\ \/ gesture.phase = "open" /\ call = "handleMouseMove"
       \/ gesture.phase = "done" /\ call = "handleMouseUp"

\* C30: after undo() or redo() between the pointer-down and the pointer-up
\* of a drawing interaction, the pointer-move and the pointer-up that follow
\* raise no error and change no element but the one the pointer-down
\* created and no snapshot but the one at the cursor.
C30_KeysWhileDrawing ==
    AfterKeysWhileDrawing =>
        /\ result.outcome # "threw"
        /\ \A k \in 1..Len(PrevDocument) :
               PrevDocument[k].id # prevApp.selectedElement.id =>
                   k <= Len(Document) /\ Document[k] = PrevDocument[k]
        /\ \A k \in 1..Len(history) :
               (k # index + 1 /\ k <= Len(prevHistory)) =>
                   history[k] = prevHistory[k]

(***************************************************************************)
(* Two history operations issued from one render.  Both closures hold the  *)
(* index and history of that render: each guard and each array handed to   *)
(* setHistory is computed from them.  setHistory is called with a value,   *)
(* so the last call wins; setIndex is called with an updater, so the       *)
(* cursor updates are applied one after the other.                         *)
(***************************************************************************)
BatchOps ==
    {OpRecord("undo", NoAction, FALSE), OpRecord("redo", NoAction, FALSE)}
        \cup {OpRecord("commit", a, ow) : a \in Actions, ow \in BOOLEAN}

\* the value of history after op, issued from the render with h and i,
\* where pending is what the render would have got without op
HistoryAfter(h, i, op, pending) ==
    IF op.op = "commit" THEN SetStateHistory(h, i, op.action, op.overwrite)
    ELSE pending

\* the cursor after op, issued from the render with h and i, where cur is
\* what the pending updaters have made of the cursor
IndexAfter(h, i, op, cur) ==
    CASE op.op = "commit" -> SetStateIndex(cur, op.overwrite)
      [] op.op = "undo" -> UndoIndex(i, cur)
      [] op.op = "redo" -> RedoIndex(h, i, cur)

\* the render can hand out history[index]
InRange == 0 <= index /\ index <= Len(history) - 1

\* two operations from one render, then the re-render
Batch(first, second) ==
    /\ InRange
    /\ Len(trace) + 2 <= MaxOps
    /\ history' = HistoryAfter(history, index, second,
                               HistoryAfter(history, index, first, history))
    /\ index' = IndexAfter(history, index, second,
                           IndexAfter(history, index, first, index))
    /\ trace' = trace \o <<first, second>>
    /\ prevIndex' = index
    /\ prevHistory' = history

\* one operation from a render, then the re-render
Single(op) ==
    /\ InRange
    /\ CASE op.op = "commit" -> Commit(op.action, op.overwrite)
         [] op.op = "undo" -> Undo
         [] op.op = "redo" -> Redo

NextBatch ==
    \/ \E op \in BatchOps :
          Single(op) /\ UNCHANGED <<geomVars, regionVars, appVars>>
    \/ \E first, second \in BatchOps :
          Batch(first, second) /\ UNCHANGED <<geomVars, regionVars, appVars>>

SpecBatch == InitHistory /\ [][NextBatch]_vars

\* C31: the cursor stays within 0..length-1 also when two history
\* operations are issued from one captured state: two undo() at cursor 1,
\* two redo() at cursor length-2, two commits without overwrite.
C31_CursorInRangeBatched == index \in 0..(Len(history) - 1)

\* the last event was a pointer-down with the middle button, or with the
\* space bar held
PanningDown == call = "handleMouseDown" /\ tag = "panning"

\* C32 as stated: a pointer-down with the middle button or the space bar
\* enters panning whatever the tool and the action, and commits nothing.
C32_AlwaysPanning ==
    PanningDown =>
        /\ app.action = "panning"
        /\ history = prevHistory
        /\ index = prevIndex
        /\ app.selectedElement = prevApp.selectedElement

\* C32, amended: such a pointer-down enters panning whatever the tool and
\* whatever the action, except writing: while a text is edited it is ignored.
\* Either way it creates, erases and selects no element and commits nothing.
C32_PanningUnlessWriting ==
    PanningDown =>
        /\ IF prevApp.action = "writing" THEN app = prevApp
           ELSE app.action = "panning"
        /\ app.tool = prevApp.tool
        /\ history = prevHistory
        /\ index = prevIndex
        /\ app.selectedElement = prevApp.selectedElement

\* panning entered in the middle of a move, with the selection tool
C32_Witness ==
    /\ PanningDown
    /\ prevApp.action = "moving"
    /\ app.action = "panning"
    /\ app.selectedElement # NoElement

\* the last event was a pointer-up whose settle changed the coordinates of
\* the active line or rectangle
SettleChanged ==
    /\ InteractionEnded
    /\ PrevDocument[ActiveSlot].type \in {"line", "rectangle"}
    /\ Document[ActiveSlot] # PrevDocument[ActiveSlot]
    /\ Coordinates(Document[ActiveSlot].x1, Document[ActiveSlot].y1,
                   Document[ActiveSlot].x2, Document[ActiveSlot].y2)
           # Coordinates(PrevDocument[ActiveSlot].x1, PrevDocument[ActiveSlot].y1,
                         PrevDocument[ActiveSlot].x2, PrevDocument[ActiveSlot].y2)

\* C33 as stated: when the settle on pointer-up changes the coordinates of
\* the active line or rectangle, the settled element is committed as a new
\* snapshot: the history grows on that pointer-up.
C33_SettleAppends ==
    SettleChanged =>
        Len(history) = Len(prevHistory) + 1 /\ index = prevIndex + 1

\* C33, amended: no pointer-up grows the history or moves the cursor; the
\* settle replaces the snapshot at the cursor, also when it changes the
\* coordinates.
C33_SettleOverwrites ==
    call = "handleMouseUp" =>
        /\ Len(history) = Len(prevHistory)
        /\ index = prevIndex
        /\ \A k \in 1..Len(history) :
               k # index + 1 => history[k] = prevHistory[k]

\* a line dragged from right to left, turned round by the pointer-up
C33_Witness ==
    /\ SettleChanged
    /\ Document[ActiveSlot].type = "line"
    /\ Len(history) = Len(prevHistory)
    /\ index = prevIndex

\* C34: while the action is resizing, the selected element is a line or a
\* rectangle that carries one of the six handle tags, so resizedCoordinates
\* returns coordinates for it at every pointer position and no resizing
\* pointer-move fails on its null; while the action is moving, the selected
\* element was hit inside.
C34_ResizingHasHandle ==
    /\ app.action = "resizing" =>
          /\ app.selectedElement # NoElement
          /\ app.selectedElement.position \in HandleTags
          /\ app.selectedElement.type \in {"line", "rectangle"}
          /\ \A x \in AppPoints :
                 resizedCoordinates(x, x, app.selectedElement.position,
                                    app.selectedElement).outcome = "returned"
    /\ app.action = "moving" =>
          /\ app.selectedElement # NoElement
          /\ app.selectedElement.position = "inside"
    /\ (call = "handleMouseMove" /\ prevApp.action = "resizing") =>
          result # Threw(DestructureError)

\* a pointer-move that resized the selected element by its handle
C34_Witness ==
    /\ call = "handleMouseMove"
    /\ prevApp.action = "resizing"
    /\ app.action = "resizing"
    /\ app.selectedElement.position \in HandleTags
    /\ result = ReturnedUndefined
    /\ Document # PrevDocument

(***************************************************************************)
(* The idle timer of the App: resetIdleTimer, the idle callback handleIdle *)
(* and the teardown effect, with the pointer handlers that call            *)
(* resetIdleTimer.  Time is counted in ticks of one second; a timer's      *)
(* callback runs at its due time or later.  A scheduled timer keeps the    *)
(* closure of the render that scheduled it.                                *)
(***************************************************************************)
Window == 2
MaxTime == 4

\* resetIdleTimer, called in a render whose elements are elems:
\* clearTimeout(idleTimerRef.current) if set, lastDrawTimeRef = now,
\* idleTimerRef.current = setTimeout(handleIdle, 2000)
resetIdleTimer(t, elems) ==
    [t EXCEPT
        !.lastDrawTimeRef = t.now,
        !.scheduled = {s \in @ : s.id # t.idleTimerRef}
                          \cup {[id |-> t.nextId, due |-> t.now + Window,
                                 hasRegionElements |-> t.hasRegionElements,
                                 length |-> Len(elems)]},
        !.idleTimerRef = t.nextId,
        !.nextId = @ + 1]

\* handleIdle of the timer s: with a draw time on record and region
\* elements in its closure, it adds a region, empties the current region
\* and clears the draw time
handleIdle(t, s) ==
    IF t.lastDrawTimeRef # 0 /\ s.hasRegionElements
    THEN [t EXCEPT !.drawingRegions = @ + 1,
                   !.hasRegionElements = FALSE,
                   !.lastDrawTimeRef = 0,
                   !.lastElementIndexRef = s.length]
    ELSE t

\* the effect on [elements]: elements.slice(lastElementIndexRef.current),
\* added to currentRegionElements when not empty
RegionEffect(t, before, elems) ==
    [t EXCEPT !.hasRegionElements =
                  @ \/ (elems # before /\ Len(elems) > t.lastElementIndexRef)]

\* a draw event, as the clock saw it
DrawEvent(t, drawing) ==
    [t EXCEPT !.lastDrawEvent = IF drawing THEN t.now ELSE @, !.fired = 0]

\* pointer-down reaches resetIdleTimer unless it returns for writing or
\* for panning
DownResets(panning) == app.action # "writing" /\ ~panning

\* pointer-move reaches resetIdleTimer in the drawing branch, after it
\* read the last element
MoveResets(clientX, clientY) ==
    /\ app.action = "drawing"
    /\ ~(app.tool = "selection"
         /\ getElementAtPosition(clientX, clientY, Document).outcome = "threw")
    /\ Len(Document) > 0

\* pointer-up reaches resetIdleTimer when the action is drawing and
\* nothing before it threw or returned
UpResets(clientX, clientY) ==
    /\ app.action = "drawing"
    /\ handleMouseUp(clientX, clientY).result.outcome # "threw"
    /\ handleMouseUp(clientX, clientY).app.action # "writing"

Mounted == Running /\ timer.mounted

InitIdle ==
    /\ history = <<<<>>>>
    /\ index = 0
    /\ trace = <<>>
    /\ prevIndex = index
    /\ prevHistory = history
    /\ GeomIdle
    /\ RegionIdle
    /\ \E t \in {"rectangle", "text"} :
          app = [action |-> "none", tool |-> t, selectedElement |-> NoElement,
                 startPanMousePosition |-> [x |-> 0, y |-> 0],
                 panOffset |-> [x |-> 0, y |-> 0], isDrawing |-> FALSE]
    /\ prevApp = app
    /\ steps = 0
    /\ timer = NoTimer
    /\ gesture = [phase |-> "idle", cut |-> "none", elements |-> <<>>,
                  index |-> 0, length |-> 1, tool |-> app.tool,
                  action |-> "none"]

IdlePointerDown(x, panning) ==
    /\ Mounted
    /\ tag' = IF panning THEN "panning" ELSE "primary"
    /\ Rendered("handleMouseDown", x, x, handleMouseDown(x, x, panning),
                gesture)
    /\ timer' = RegionEffect(
                    DrawEvent(IF DownResets(panning)
                              THEN resetIdleTimer(timer, Document) ELSE timer,
                              DownResets(panning)),
                    Document, Document')

IdlePointerMove(x) ==
    /\ Mounted
    /\ tag' = "none"
    /\ Rendered("handleMouseMove", x, x, handleMouseMove(x, x), gesture)
    /\ timer' = RegionEffect(
                    DrawEvent(IF MoveResets(x, x)
                              THEN resetIdleTimer(timer, Document) ELSE timer,
                              app.action = "drawing"),
                    Document, Document')

IdlePointerUp(x) ==
    /\ Mounted
    /\ tag' = "none"
    /\ Rendered("handleMouseUp", x, x, handleMouseUp(x, x), gesture)
    /\ timer' = RegionEffect(
                    DrawEvent(IF UpResets(x, x)
                              THEN resetIdleTimer(timer, Document) ELSE timer,
                              app.action = "drawing"),
                    Document, Document')

IdleBlur(value) ==
    /\ Mounted
    /\ tag' = "none"
    /\ app.action = "writing"
    /\ Rendered("handleBlur", px, py, handleBlur(value), gesture)
    /\ timer' = RegionEffect(DrawEvent(timer, FALSE), Document, Document')

IdleKeyUndo ==
    /\ Mounted
    /\ tag' = "none"
    /\ Rendered("undo", px, py,
                After(app, history, UndoIndex(index, index), ReturnedUndefined),
                gesture)
    /\ timer' = RegionEffect(DrawEvent(timer, FALSE), Document, Document')

\* a second goes by
Tick ==
    /\ timer.now < MaxTime
    /\ timer' = [timer EXCEPT !.now = @ + 1, !.fired = 0]
    /\ UNCHANGED <<histVars, geomVars, regionVars, app, prevApp, steps,
                   gesture>>

\* a scheduled timer, due, runs its callback
Fire ==
    /\ \E s \in timer.scheduled :
          /\ s.due <= timer.now
          /\ timer' = [handleIdle(timer, s) EXCEPT
                          !.scheduled = timer.scheduled \ {s},
                          !.fired = s.id]
    /\ call' = "handleIdle"
    /\ UNCHANGED <<histVars, elements, drawn, px, py, tag, result, regionVars,
                   app, prevApp, steps, gesture>>

\* the App is unmounted: the cleanup of the effect clears the timer
Teardown ==
    /\ timer.mounted
    /\ timer' = [timer EXCEPT
                    !.mounted = FALSE,
                    !.scheduled = {s \in @ : s.id # timer.idleTimerRef},
                    !.fired = 0]
    /\ call' = "teardown"
    /\ UNCHANGED <<histVars, elements, drawn, px, py, tag, result, regionVars,
                   app, prevApp, steps, gesture>>

NextIdle ==
    \/ \E x \in AppPoints, panning \in BOOLEAN : IdlePointerDown(x, panning)
    \/ \E x \in AppPoints : IdlePointerMove(x)
    \/ \E x \in AppPoints : IdlePointerUp(x)
    \/ \E value \in Texts : IdleBlur(value)
    \/ IdleKeyUndo
    \/ Tick
    \/ Fire
    \/ Teardown

SpecIdle == InitIdle /\ [][NextIdle]_vars

\* at most one timer is pending
OneTimerPending == Cardinality(timer.scheduled) <= 1

\* the callback that just ran belongs to the timer scheduled last, and the
\* App is mounted
FiredCurrent ==
    timer.fired # 0 => timer.fired = timer.idleTimerRef /\ timer.mounted

\* the callback that just ran was a full window after the last draw event
FiredAfterQuiescence ==
    (timer.fired # 0 /\ timer.lastDrawEvent # 0) =>
        timer.now - timer.lastDrawEvent >= Window

\* C35: at most one idle timer is pending at any time; the idle callback
\* only runs for the timer scheduled last, never after teardown, and never
\* sooner than a full quiescence window after the last draw event (a
\* pointer-down that is neither panning nor dropped for writing, a
\* pointer-move while drawing, a pointer-up ending a drawing).
C35_IdleTimerDiscipline ==
    /\ OneTimerPending
    /\ FiredCurrent
    /\ FiredAfterQuiescence

\* what an eraser pointer-move at (px, py) may do to one point
PointMarked(before, after) ==
    /\ after.x = before.x
    /\ after.y = before.y
    /\ DOMAIN after \subseteq {"x", "y", "isErased"}
    /\ isErased(after) <=>
           \/ isErased(before)
           \/ (before.x - px) * (before.x - px)
                  + (before.y - py) * (before.y - py)
                  <= EraserSize * EraserSize

\* C36: an eraser pointer-move keeps the elements of the document and the
\* length and order of every stroke's points and each point's x and y; it
\* sets isErased on exactly the points not yet erased that lie within
\* eraserSize of the eraser, never clears isErased, and leaves every
\* element that is not a pencil stroke as it was.
C36_EraserOnlyMarks ==
    call = "handleMouseMove" =>
        /\ Len(Document) = Len(PrevDocument)
        /\ \A k \in 1..Len(Document) :
              IF PrevDocument[k].type # "pencil"
              THEN Document[k] = PrevDocument[k]
              ELSE /\ [Document[k] EXCEPT !.points = PrevDocument[k].points]
                          = PrevDocument[k]
                   /\ Len(Document[k].points) = Len(PrevDocument[k].points)
                   /\ \A j \in 1..Len(Document[k].points) :
                          PointMarked(PrevDocument[k].points[j],
                                      Document[k].points[j])

\* a move that erased one point of a stroke at exactly eraserSize, left
\* another point of it alone, with a rectangle in the document
C36_Witness ==
    /\ call = "handleMouseMove"
    /\ Len(Document) = 2
    /\ Document[1].type = "rectangle"
    /\ \E i, j \in 1..Len(Document[2].points) :
          /\ isErased(Document[2].points[i])
          /\ ~isErased(PrevDocument[2].points[i])
          /\ (Document[2].points[i].x - px) * (Document[2].points[i].x - px)
                 + (Document[2].points[i].y - py)
                       * (Document[2].points[i].y - py)
                 = EraserSize * EraserSize
          /\ ~isErased(Document[2].points[j])

(***************************************************************************)
(* Region detection of the drawing board: floodFill with its pre-allocated *)
(* Int32Array queue and the stride scan of detectRegions, next to          *)
(* floodFill and the first pass of detectRegions in element-utils.js, each *)
(* run as a whole on one raster.                                           *)
(***************************************************************************)
\* the neighbours floodFill puts on its queue after (x, y) was visited
Pushed(image, x, y, seen) ==
    SelectSeq(neighbors(x, y),
              LAMBDA n : /\ isWithinBounds(n[1], n[2], image.width,
                                           image.height)
                         /\ Key(n[1], n[2]) \notin seen)

\* element-utils.js, floodFill: its while loop run to the end; q is the
\* queue array
RECURSIVE FillLoop(_, _, _, _)
FillLoop(image, q, seen, r) ==
    IF q = <<>> THEN [region |-> r, visited |-> seen]
    ELSE LET x == Head(q)[1]
             y == Head(q)[2]
         IN IF Key(x, y) \in seen
               \/ ~isPixelNonTransparent(getPixel(image, x, y))
            THEN FillLoop(image, Tail(q), seen, r)
            ELSE FillLoop(image,
                          Tail(q) \o Pushed(image, x, y, seen \cup {Key(x, y)}),
                          seen \cup {Key(x, y)}, AddPoint(r, x, y))

floodFill(image, startX, startY, seen) ==
    FillLoop(image, <<<<startX, startY>>>>, seen, StartRegion(startX, startY))

\* DrawingBoard.js, getPixel: the alpha channel alone, as a boolean
boardGetPixel(image, x, y) == image.data[(y * image.width + x) + 1] > 0

\* new Int32Array(width * height * 2): room for this many pixels
Capacity(image) == image.width * image.height

\* queue[queueEnd] = nx; queue[queueEnd + 1] = ny for every pushed
\* neighbour: a write past the end of a typed array is dropped
Written(image, data, pushed) ==
    SubSeq(data \o pushed, 1, Min(Len(data) + Len(pushed), Capacity(image)))

\* DrawingBoard.js, floodFill: its while loop run to the end; data is the
\* written part of the Int32Array in pixels, queueStart and queueEnd count
\* pixels; a read past the end of the array gives undefined, which is
\* neither visited nor opaque
RECURSIVE BoardFillLoop(_, _, _, _, _, _)
BoardFillLoop(image, data, queueStart, queueEnd, seen, r) ==
    IF ~(queueStart < queueEnd)
    THEN [region |-> r, visited |-> seen, queueEnd |-> queueEnd]
    ELSE IF queueStart >= Len(data)
    THEN BoardFillLoop(image, data, queueStart + 1, queueEnd, seen, r)
    ELSE LET x == data[queueStart + 1][1]
             y == data[queueStart + 1][2]
             pushed == Pushed(image, x, y, seen \cup {Key(x, y)})
         IN IF Key(x, y) \in seen \/ ~boardGetPixel(image, x, y)
            THEN BoardFillLoop(image, data, queueStart + 1, queueEnd, seen, r)
            ELSE BoardFillLoop(image, Written(image, data, pushed),
                               queueStart + 1, queueEnd + Len(pushed),
                               seen \cup {Key(x, y)}, AddPoint(r, x, y))

boardFloodFill(image, startX, startY, seen) ==
    BoardFillLoop(image, <<<<startX, startY>>>>, 0, 1, seen,
                  StartRegion(startX, startY))

\* element-utils.js, detectRegions: the first pass from raster position k
\* on, kept the regions retained so far
RECURSIVE FirstPass(_, _, _, _, _)
FirstPass(image, k, seen, kept, minSize) ==
    IF k >= image.width * image.height THEN kept
    ELSE LET x == k % image.width
             y == k \div image.width
             filled == floodFill(image, x, y, seen)
         IN IF Key(x, y) \in seen
               \/ ~isPixelNonTransparent(getPixel(image, x, y))
            THEN FirstPass(image, k + 1, seen, kept, minSize)
            ELSE FirstPass(image, k + 1, filled.visited,
                           IF retained(filled.region, minSize)
                           THEN Append(kept, filled.region) ELSE kept,
                           minSize)

Stride == 4

\* the region pushed by the stride scan, its coordinates transformed back
\* (scale 1, origin the bounds.minX and bounds.minY of the drawing)
transformedRegion(r, origin) ==
    [points |-> [k \in 1..Len(r.points) |->
                    [x |-> r.points[k].x + origin.x,
                     y |-> r.points[k].y + origin.y]],
     minX |-> r.minX + origin.x, maxX |-> r.maxX + origin.x,
     minY |-> r.minY + origin.y, maxY |-> r.maxY + origin.y]

\* DrawingBoard.js, detectRegions: the stride scan from (x, y) on
RECURSIVE StrideScan(_, _, _, _, _, _, _)
StrideScan(image, x, y, seen, kept, minSize, origin) ==
    IF y >= image.height THEN kept
    ELSE IF x >= image.width
    THEN StrideScan(image, 0, y + Stride, seen, kept, minSize, origin)
    ELSE LET filled == boardFloodFill(image, x, y, seen)
         IN IF Key(x, y) \in seen \/ ~boardGetPixel(image, x, y)
            THEN StrideScan(image, x + Stride, y, seen, kept, minSize, origin)
            ELSE StrideScan(image, x + Stride, y, filled.visited,
                            IF retained(filled.region, minSize)
                            THEN Append(kept,
                                        transformedRegion(filled.region,
                                                          origin))
                            ELSE kept,
                            minSize, origin)

\* bounds.minX and bounds.minY of the drawing, as the scenario takes them
Origins == {[x |-> 0, y |-> 0], [x |-> -3, y |-> 7]}

InitBoard ==
    /\ AppIdle
    /\ HistInit
    /\ GeomIdle
    /\ imageData \in Rasters
    /\ minRegionSize \in MinRegionSizes
    /\ groupingDistance = 0
    /\ visited = {}
    /\ scan = 0
    /\ queue = <<>>
    /\ region = StartRegion(0, 0)
    /\ completed = <<>>
    /\ initialRegions = <<>>
    /\ regions = <<>>
    /\ pc = "start"

\* floodFill of the drawing board from the opaque pixel at raster position
\* k, and floodFill of element-utils.js from the same pixel
BoardFill(k) ==
    /\ pc = "start"
    /\ boardGetPixel(imageData, ScanX(k), ScanY(k))
    /\ LET filled == boardFloodFill(imageData, ScanX(k), ScanY(k), {})
       IN /\ region' = filled.region
          /\ visited' = filled.visited
          /\ queue' = [queueEnd |-> filled.queueEnd,
                       length |-> 2 * Capacity(imageData)]
    /\ completed' = <<floodFill(imageData, ScanX(k), ScanY(k), {}).region>>
    /\ scan' = k
    /\ pc' = "filled"
    /\ UNCHANGED <<imageData, minRegionSize, groupingDistance, initialRegions,
                   regions>>

\* the stride scan of the drawing board, and the first pass of
\* element-utils.js on the same raster
BoardScan(origin) ==
    /\ pc = "start"
    /\ initialRegions' = StrideScan(imageData, 0, 0, {}, <<>>, minRegionSize,
                                    origin)
    /\ completed' = FirstPass(imageData, 0, {}, <<>>, minRegionSize)
    /\ region' = StartRegion(origin.x, origin.y)
    /\ pc' = "scanned"
    /\ UNCHANGED <<imageData, minRegionSize, groupingDistance, visited, scan,
                   queue, regions>>

NextBoard ==
    \/ \E k \in 0..(PixelCount - 1) :
          BoardFill(k) /\ UNCHANGED <<histVars, geomVars, appVars>>
    \/ \E origin \in Origins :
          BoardScan(origin) /\ UNCHANGED <<histVars, geomVars, appVars>>

SpecBoard == InitBoard /\ [][NextBoard]_vars

\* C37: the flood fill with the pre-allocated queue never writes past the
\* end of its queue, and it collects the same pixels with the same bounds
\* as the flood fill with the growing queue, from every opaque seed of
\* every raster.
C37_QueueNeverOverflows ==
    pc = "filled" =>
        /\ 2 * queue.queueEnd <= queue.length
        /\ PointSet(region) = PointSet(completed[1])
        /\ [region EXCEPT !.points = <<>>]
               = [completed[1] EXCEPT !.points = <<>>]

\* C38: the stride scan retains the same blobs as the scan of every pixel:
\* the same sets of pixels, moved by the origin of the drawing.
C38_StrideFindsAllBlobs ==
    pc = "scanned" =>
        {PointSet(r) : r \in {initialRegions[k] : k \in 1..Len(initialRegions)}}
            = {PointSet(transformedRegion(r, [x |-> region.minX,
                                              y |-> region.minY])) :
                  r \in {completed[k] : k \in 1..Len(completed)}}

(***************************************************************************)
(* The merge pass of the drawing board (one sweep over the retained blobs  *)
(* with a set of used indices) next to the merge pass of element-utils.js  *)
(* (merge the first close pair, start again), each run as a whole on the   *)
(* blobs retained from one raster.                                         *)
(***************************************************************************)
\* element-utils.js, detectRegions: the while loop of the second pass
RECURSIVE RestartMerge(_, _)
RestartMerge(rs, grouping) ==
    IF firstPair(rs, grouping) = NoPair THEN rs
    ELSE RestartMerge(mergeAt(rs, firstPair(rs, grouping)[1],
                              firstPair(rs, grouping)[2]),
                      grouping)

\* DrawingBoard.js, detectRegions: the for loop over j, from j on (1-based)
RECURSIVE Sweep(_, _, _, _, _, _)
Sweep(rs, j, currentRegion, used, merged, grouping) ==
    IF j > Len(rs)
    THEN [currentRegion |-> currentRegion, used |-> used, merged |-> merged]
    ELSE IF j \in used
    THEN Sweep(rs, j + 1, currentRegion, used, merged, grouping)
    ELSE IF withinGrouping(calculateRegionDistance(currentRegion, rs[j]),
                           grouping)
    THEN Sweep(rs, j + 1, mergeRegions(currentRegion, rs[j]),
               used \cup {j}, TRUE, grouping)
    ELSE Sweep(rs, j + 1, currentRegion, used, merged, grouping)

\* the do ... while (merged) around it
RECURSIVE Absorb(_, _, _, _)
Absorb(rs, currentRegion, used, grouping) ==
    LET swept == Sweep(rs, 1, currentRegion, used, FALSE, grouping)
    IN IF swept.merged
       THEN Absorb(rs, swept.currentRegion, swept.used, grouping)
       ELSE swept

\* the for loop over i, from i on (1-based): mergedRegions at its end
RECURSIVE UsedSetMerge(_, _, _, _, _)
UsedSetMerge(rs, i, used, mergedRegions, grouping) ==
    IF i > Len(rs) THEN mergedRegions
    ELSE IF i \in used
    THEN UsedSetMerge(rs, i + 1, used, mergedRegions, grouping)
    ELSE LET absorbed == Absorb(rs, rs[i], used \cup {i}, grouping)
         IN UsedSetMerge(rs, i + 1, absorbed.used,
                         Append(mergedRegions, absorbed.currentRegion),
                         grouping)

\* the rasters of the merge scenario: 4 by 4, drawn on the border ring
RingRasters ==
    {[width |-> 4, height |-> 4, data |-> d] :
        d \in {f \in [1..16 -> AlphaValues] :
                  f[6] = 0 /\ f[7] = 0 /\ f[10] = 0 /\ f[11] = 0}}

InitMerge ==
    /\ AppIdle
    /\ HistInit
    /\ GeomIdle
    /\ imageData \in RingRasters
    /\ minRegionSize \in MinRegionSizes
    /\ groupingDistance \in {0, 2}
    /\ visited = {}
    /\ scan = 0
    /\ queue = <<>>
    /\ region = StartRegion(0, 0)
    /\ completed = <<>>
    /\ initialRegions = FirstPass(imageData, 0, {}, <<>>, minRegionSize)
    /\ regions = <<>>
    /\ pc = "merge"

\* both merge passes on the retained blobs: the sweep with the used set,
\* and the restart scan with its result converted
BoardMerge ==
    /\ pc = "merge"
    /\ completed' = UsedSetMerge(initialRegions, 1, {}, <<>>,
                                 groupingDistance)
    /\ regions' = regionFormat(RestartMerge(initialRegions, groupingDistance))
    /\ pc' = "merged"
    /\ UNCHANGED <<imageData, minRegionSize, groupingDistance, visited, scan,
                   queue, region, initialRegions>>

NextMerge ==
    \/ BoardMerge /\ UNCHANGED <<histVars, geomVars, appVars>>

SpecMerge == InitMerge /\ [][NextMerge]_vars

\* C39: the sweep with the used set ends with the same regions as the
\* restart scan, and no two of the regions it emits are within
\* groupingDistance of each other.
C39_SweepEqualsRestart ==
    pc = "merged" =>
        /\ {r.bounds : r \in {regionFormat(completed)[k] :
                                  k \in 1..Len(completed)}}
               = {r.bounds : r \in {regions[k] : k \in 1..Len(regions)}}
        /\ \A i, j \in 1..Len(completed) :
               i < j => ~withinGrouping(
                            calculateRegionDistance(completed[i],
                                                    completed[j]),
                            groupingDistance)

(***************************************************************************)
(* calculateBoundsForElements: the exported function of element-utils.js   *)
(* and the copy inside the App component, each applied to a list of        *)
(* elements.                                                               *)
(***************************************************************************)
Infinity == 1000000
Padding == 20

\* the running minX, minY, maxX, maxY before the forEach
NoExtent ==
    [minX |-> Infinity, minY |-> Infinity,
     maxX |-> 0 - Infinity, maxY |-> 0 - Infinity]

\* the four Math.min / Math.max of a pencil point
WithPoint(acc, point) ==
    [minX |-> Min(acc.minX, point.x), minY |-> Min(acc.minY, point.y),
     maxX |-> Max(acc.maxX, point.x), maxY |-> Max(acc.maxY, point.y)]

\* element.points.forEach
RECURSIVE WithPoints(_, _)
WithPoints(acc, points) ==
    IF points = <<>> THEN acc
    ELSE WithPoints(WithPoint(acc, Head(points)), Tail(points))

\* the text branch: x1, y1 for the minima, x2, y2 for the maxima
WithText(acc, element) ==
    [minX |-> Min(acc.minX, element.x1), minY |-> Min(acc.minY, element.y1),
     maxX |-> Max(acc.maxX, element.x2), maxY |-> Max(acc.maxY, element.y2)]

\* the line and rectangle branch of the exported function:
\* maxY = Math.max(maxY, element.y2, element.y2)
WithShapeExported(acc, element) ==
    [minX |-> Min(acc.minX, Min(element.x1, element.x2)),
     minY |-> Min(acc.minY, Min(element.y1, element.y2)),
     maxX |-> Max(acc.maxX, Max(element.x1, element.x2)),
     maxY |-> Max(acc.maxY, Max(element.y2, element.y2))]

\* the line and rectangle branch of the copy in the component:
\* maxY = Math.max(maxY, element.y1, element.y2)
WithShape(acc, element) ==
    [minX |-> Min(acc.minX, Min(element.x1, element.x2)),
     minY |-> Min(acc.minY, Min(element.y1, element.y2)),
     maxX |-> Max(acc.maxX, Max(element.x1, element.x2)),
     maxY |-> Max(acc.maxY, Max(element.y1, element.y2))]

\* elementsList.forEach; exported tells the two functions apart
RECURSIVE Extent(_, _, _)
Extent(acc, elementsList, exported) ==
    IF elementsList = <<>> THEN acc
    ELSE LET element == Head(elementsList)
             next == CASE element.type = "text" -> WithText(acc, element)
                       [] element.type = "pencil" ->
                              WithPoints(acc, element.points)
                       [] element.type \in {"line", "rectangle"} ->
                              IF exported THEN WithShapeExported(acc, element)
                              ELSE WithShape(acc, element)
                       [] OTHER -> acc
         IN Extent(next, Tail(elementsList), exported)

Padded(acc) ==
    [x1 |-> acc.minX - Padding, y1 |-> acc.minY - Padding,
     x2 |-> acc.maxX + Padding, y2 |-> acc.maxY + Padding]

\* element-utils.js, calculateBoundsForElements
calculateBoundsForElements(elementsList) ==
    IF Len(elementsList) = 0 THEN ReturnedNull
    ELSE Returned(Padded(Extent(NoExtent, elementsList, TRUE)))

\* the copy of calculateBoundsForElements inside the App component
componentCalculateBoundsForElements(elementsList) ==
    IF Len(elementsList) = 0 THEN ReturnedNull
    ELSE Returned(Padded(Extent(NoExtent, elementsList, FALSE)))

\* the elements of the bounds scenario: lines and rectangles with their
\* corners in every order, strokes and texts
BoundsCorners == {0, 30}
BoundsElements ==
    {createElement(0, x1, y1, x2, y2, type, DefaultPencilSize) :
        x1 \in BoundsCorners, y1 \in BoundsCorners,
        x2 \in BoundsCorners, y2 \in BoundsCorners,
        type \in {"line", "rectangle"}}
    \cup {[createElement(0, x, 40, x, 40, "pencil", DefaultPencilSize)
              EXCEPT !.points = Append(@, [x |-> 50, y |-> x])] :
             x \in {-10, 60}}
    \cup {[text |-> "hi"] @@
              createElement(0, x, 5, x + measureText("hi"), 5 + TextHeight,
                            "text", DefaultPencilSize) : x \in {-5, 45}}

InitBounds ==
    /\ HistInit
    /\ RegionIdle
    /\ AppIdle
    /\ elements \in {<<>>} \cup {<<e>> : e \in BoundsElements}
                     \cup {<<e, f>> : e \in BoundsElements,
                                      f \in BoundsElements}
    /\ drawn = elements
    /\ px = 0
    /\ py = 0
    /\ call = "none"
    /\ tag = "none"
    /\ result = Returned(Null)

\* calculateBoundsForElements(currentRegionElements), the imported function
ExportedBounds ==
    /\ call = "none"
    /\ call' = "calculateBoundsForElements"
    /\ tag' = "exported"
    /\ result' = calculateBoundsForElements(elements)
    /\ UNCHANGED <<elements, drawn, px, py>>

\* calculateBoundsForElements(currentRegionElements), the component's own
ComponentBounds ==
    /\ call = "none"
    /\ call' = "calculateBoundsForElements"
    /\ tag' = "component"
    /\ result' = componentCalculateBoundsForElements(elements)
    /\ UNCHANGED <<elements, drawn, px, py>>

NextBounds ==
    \/ ExportedBounds /\ UNCHANGED <<histVars, regionVars, appVars>>
    \/ ComponentBounds /\ UNCHANGED <<histVars, regionVars, appVars>>

SpecBounds == InitBounds /\ [][NextBounds]_vars

\* every x and every y an element of the list has: both corners, or every
\* point of a stroke
XsOf(element) ==
    IF element.type = "pencil"
    THEN {element.points[k].x : k \in 1..Len(element.points)}
    ELSE {element.x1, element.x2}
YsOf(element) ==
    IF element.type = "pencil"
    THEN {element.points[k].y : k \in 1..Len(element.points)}
    ELSE {element.y1, element.y2}
AllXs == UNION {XsOf(elements[k]) : k \in 1..Len(elements)}
AllYs == UNION {YsOf(elements[k]) : k \in 1..Len(elements)}

\* C40: calculateBoundsForElements returns null for an empty list and
\* otherwise the box from the least x and y less 20 to the greatest x and y
\* plus 20 over every coordinate of the listed elements, so every element
\* lies inside it with a margin of 20; the exported function and the copy
\* in the component return the same.
C40_BoundsCoverElements ==
    call = "calculateBoundsForElements" =>
        /\ (elements = <<>>) <=> (result.outcome = "null")
        /\ elements # <<>> =>
              /\ result.outcome = "returned"
              /\ \A x \in AllXs : result.value.x1 + Padding <= x
                                  /\ x <= result.value.x2 - Padding
              /\ \A y \in AllYs : result.value.y1 + Padding <= y
                                  /\ y <= result.value.y2 - Padding
              /\ \E x \in AllXs : result.value.x1 + Padding = x
              /\ \E x \in AllXs : result.value.x2 - Padding = x
              /\ \E y \in AllYs : result.value.y1 + Padding = y
              /\ \E y \in AllYs : result.value.y2 - Padding = y
        /\ calculateBoundsForElements(elements).outcome
               = componentCalculateBoundsForElements(elements).outcome
        /\ elements # <<>> =>
              calculateBoundsForElements(elements).value
                  = componentCalculateBoundsForElements(elements).value

=============================================================================
